---- MODULE Spec2Model ----
(***************************************************************************)
(* A model of cfgrammar's Yacc front end: the GrammarAST builder and its   *)
(* validator (src/lib/yacc/ast.rs) and the compilation of a validated AST  *)
(* into a YaccGrammar (src/lib/yacc/grammar.rs).                           *)
(*                                                                         *)
(* Conventions.  A Rust Vec is a sequence; the code's indices are 0-based  *)
(* and are kept 0-based in every stored value (At(v, i) reads v[i]).       *)
(* Option<T> is the empty sequence (None) or a one-element sequence        *)
(* (Some(x)).  A HashSet is the sequence of its distinct elements in the   *)
(* order its iterator yields them; an insertion may leave the elements in  *)
(* any order.  A HashMap that is never iterated is a function.  An         *)
(* IndexMap is the sequence of its (key, value) entries in insertion       *)
(* order.  Names are strings; \o is the code's += on Strings.              *)
(***************************************************************************)
EXTENDS Integers, Sequences, FiniteSets, TLC

VARIABLES ast, result, grm, yacc_kind, sg, min_run, max_run, ret

vars == <<ast, result, grm, yacc_kind, sg, min_run, max_run, ret>>

(***************************************************************************)
(* Bounds of the model.                                                    *)
(***************************************************************************)
\* The largest number of add_prod calls made on one GrammarAST.
MaxProds == 2

\* The largest number of symbols in the body of one production.
MaxSyms == 2

\* How far the cost of a nonterminal that is not done is followed.
MaxCost == 5

\* The iterations of min_sentence's while loop, and the depth of
\* min_sentences' recursion, that are followed.
MaxSteps == 16

\* The add_prod calls followed when only productions are added.
MaxBuildProds == 3

(***************************************************************************)
(* Option, Vec and HashSet helpers.                                        *)
(***************************************************************************)
None == <<>>

Some(x) == <<x>>

is_some(o) == o # <<>>

is_none(o) == o = <<>>

unwrap(o) == o[1]

At(v, i) == v[i + 1]

Range(s) == {s[i] : i \in 1..Len(s)}

\* Every order in which a HashSet holding the elements of S may iterate.
Orders(S) ==
  {s \in [1..Cardinality(S) -> S] : \A i, j \in 1..Cardinality(S) : s[i] = s[j] => i = j}

\* HashSet::insert: the set gains n; the iteration order of the result is
\* whatever the new table layout gives.
HashSet_insert(set, n) == Orders(Range(set) \cup {n})

HashSet_contains(set, n) == n \in Range(set)

(***************************************************************************)
(* ast.rs: Symbol, Production, Precedence, errors.                         *)
(***************************************************************************)
Nonterm(n) == [tag |-> "Nonterm", v |-> n]

Term(n) == [tag |-> "Term", v |-> n]

Production(symbols, precedence) == [symbols |-> symbols, precedence |-> precedence]

Precedence(level, kind) == [level |-> level, kind |-> kind]

Ok == [tag |-> "Ok"]

Err(kind, sym) == [tag |-> "Err", kind |-> kind, sym |-> sym]

(***************************************************************************)
(* ast.rs: GrammarAST.                                                     *)
(***************************************************************************)
GrammarAST_new ==
  [start |-> None, rules |-> <<>>, prods |-> <<>>, tokens |-> <<>>,
   precs |-> <<>>, implicit_tokens |-> None]

\* IndexMap::keys
rules_keys(rules) == [i \in 1..Len(rules) |-> rules[i].key]

\* IndexMap::contains_key
rules_contains_key(rules, k) == \E i \in 1..Len(rules) : rules[i].key = k

\* IndexMap::get / Index (the caller has checked that the key is present)
rules_get(rules, k) == rules[CHOOSE i \in 1..Len(rules) : rules[i].key = k].value

\* rules_entry_push moving the entry of a rule that gets a production to the
\* end of the map.
rules_entry_push_moves_last(rules, k, idx) ==
  IF rules_contains_key(rules, k)
  THEN LET others == {i \in 1..Len(rules) : rules[i].key # k}
           kept[i \in 0..Len(rules)] ==
             IF i = 0 THEN <<>>
             ELSE IF i \in others THEN Append(kept[i - 1], rules[i]) ELSE kept[i - 1]
       IN Append(kept[Len(rules)], [key |-> k, value |-> Append(rules_get(rules, k), idx)])
  ELSE Append(rules, [key |-> k, value |-> <<idx>>])

\* self.rules.entry(key).or_insert_with(Vec::new).push(idx)
rules_entry_push(rules, k, idx) ==
  IF rules_contains_key(rules, k)
  THEN [i \in 1..Len(rules) |->
          IF rules[i].key = k
          THEN [key |-> k, value |-> Append(rules[i].value, idx)]
          ELSE rules[i]]
  ELSE Append(rules, [key |-> k, value |-> <<idx>>])

\* GrammarAST::add_prod, as a function of the AST
add_prod_ast(a, key, symbols, precedence) ==
  [a EXCEPT !.rules = rules_entry_push(a.rules, key, Len(a.prods)),
            !.prods = Append(a.prods, Production(symbols, precedence))]

get_rule(a, key) == IF rules_contains_key(a.rules, key) THEN Some(rules_get(a.rules, key)) ELSE None

has_token(a, s) == HashSet_contains(a.tokens, s)

(***************************************************************************)
(* ast.rs: complete_and_validate.                                          *)
(***************************************************************************)
\* The check of self.start (the match at the head of the function).
check_start(a) ==
  IF is_none(a.start)
  THEN Some(Err("NoStartRule", None))
  ELSE IF ~rules_contains_key(a.rules, unwrap(a.start))
       THEN Some(Err("InvalidStartRule", Some(Nonterm(unwrap(a.start)))))
       ELSE None

\* The check of a production's precedence override.
check_prec(a, prod) ==
  IF is_some(prod.precedence)
  THEN LET n == unwrap(prod.precedence) IN
       IF ~HashSet_contains(a.tokens, n)
       THEN Some(Err("UnknownToken", Some(Term(n))))
       ELSE IF n \notin DOMAIN a.precs
            THEN Some(Err("NoPrecForToken", Some(Term(n))))
            ELSE None
  ELSE None

\* check_sym with a Nonterm reference accepted when its name is a declared
\* token (the Yacc feature the validator does not support).
check_sym_tokens_as_rules(a, sym) ==
  IF sym.tag = "Nonterm"
  THEN IF ~rules_contains_key(a.rules, sym.v) /\ ~HashSet_contains(a.tokens, sym.v)
       THEN Some(Err("UnknownRuleRef", Some(sym)))
       ELSE None
  ELSE IF ~HashSet_contains(a.tokens, sym.v)
       THEN Some(Err("UnknownToken", Some(sym)))
       ELSE None

\* The check of one symbol of a production's body.
check_sym(a, sym) ==
  IF sym.tag = "Nonterm"
  THEN IF ~rules_contains_key(a.rules, sym.v)
       THEN Some(Err("UnknownRuleRef", Some(sym)))
       ELSE None
  ELSE IF ~HashSet_contains(a.tokens, sym.v)
       THEN Some(Err("UnknownToken", Some(sym)))
       ELSE None

\* for sym in &prod.symbols, from the i-th symbol (1-based) on
RECURSIVE check_syms(_, _, _)
check_syms(a, symbols, i) ==
  IF i > Len(symbols)
  THEN None
  ELSE LET e == check_sym(a, symbols[i]) IN
       IF is_some(e) THEN e ELSE check_syms(a, symbols, i + 1)

\* check_prod with the body scanned before the precedence override is looked at.
check_prod_symbols_first(a, prod) ==
  LET e == check_syms(a, prod.symbols, 1) IN
  IF is_some(e) THEN e ELSE check_prec(a, prod)

\* The body of the inner loop: one production.
check_prod(a, prod) ==
  LET e == check_prec(a, prod) IN
  IF is_some(e) THEN e ELSE check_syms(a, prod.symbols, 1)

\* for &prod_idx in prod_idxs, from the j-th (1-based) on
RECURSIVE check_prod_idxs(_, _, _)
check_prod_idxs(a, prod_idxs, j) ==
  IF j > Len(prod_idxs)
  THEN None
  ELSE LET e == check_prod(a, At(a.prods, prod_idxs[j])) IN
       IF is_some(e) THEN e ELSE check_prod_idxs(a, prod_idxs, j + 1)

\* for prod_idxs in self.rules.values(), from the r-th (1-based) on
RECURSIVE check_rules(_, _)
check_rules(a, r) ==
  IF r > Len(a.rules)
  THEN None
  ELSE LET e == check_prod_idxs(a, a.rules[r].value, 1) IN
       IF is_some(e) THEN e ELSE check_rules(a, r + 1)

\* The value complete_and_validate returns on the AST a.
validate(a) ==
  LET e == check_start(a) IN
  IF is_some(e)
  THEN unwrap(e)
  ELSE LET f == check_rules(a, 1) IN
       IF is_some(f) THEN unwrap(f) ELSE Ok

(***************************************************************************)
(* grammar.rs: YaccGrammar::new.                                           *)
(***************************************************************************)
START_NONTERM == "^"

IMPLICIT_NONTERM == "~"

IMPLICIT_START_NONTERM == "^~"

\* The value that stands for a fatal failure (a panic) of YaccGrammar::new.
Panic == [tag |-> "panic"]

\* let mut n = sentinel.to_string();
\* while ast.rules.get(&n).is_some() { n += sentinel; }
RECURSIVE unique_name(_, _, _)
unique_name(rules, n, sentinel) ==
  IF rules_contains_key(rules, n)
  THEN unique_name(rules, n \o sentinel, sentinel)
  ELSE n

start_nonterm_name(a) == unique_name(a.rules, START_NONTERM, START_NONTERM)

\* implicit_rewriting with the YaccKind not looked at.
implicit_rewriting_any_kind(kind, a) == is_some(a.implicit_tokens)

\* The match on yacc_kind: are the implicit nonterminals created?
implicit_rewriting(kind, a) == kind = "Eco" /\ is_some(a.implicit_tokens)

implicit_nonterm_name(kind, a) ==
  IF implicit_rewriting(kind, a)
  THEN Some(unique_name(a.rules, IMPLICIT_NONTERM, IMPLICIT_NONTERM))
  ELSE None

\* implicit_start_nonterm_name grown from the sentinel of the implicit
\* nonterminal instead of its own.
implicit_start_nonterm_name_wrong_sentinel(kind, a) ==
  IF implicit_rewriting(kind, a)
  THEN Some(unique_name(a.rules, IMPLICIT_NONTERM, IMPLICIT_NONTERM))
  ELSE None

implicit_start_nonterm_name(kind, a) ==
  IF implicit_rewriting(kind, a)
  THEN Some(unique_name(a.rules, IMPLICIT_START_NONTERM, IMPLICIT_START_NONTERM))
  ELSE None

\* make_nonterm_names with the AST's rule names pushed before the implicit names.
make_nonterm_names_rules_first(kind, a) ==
  <<start_nonterm_name(a)>>
    \o rules_keys(a.rules)
    \o (IF implicit_rewriting(kind, a)
        THEN <<unwrap(implicit_nonterm_name(kind, a)),
               unwrap(implicit_start_nonterm_name(kind, a))>>
        ELSE <<>>)

\* nonterm_names after the pushes of the start name, the implicit names and
\* the AST's rule names.
make_nonterm_names(kind, a) ==
  <<start_nonterm_name(a)>>
    \o (IF implicit_rewriting(kind, a)
        THEN <<unwrap(implicit_nonterm_name(kind, a)),
               unwrap(implicit_start_nonterm_name(kind, a))>>
        ELSE <<>>)
    \o rules_keys(a.rules)

\* A HashMap filled by inserting (names[i], i) for i = 0, 1, ...: a later
\* insertion of the same name replaces the earlier one.
make_nonterm_map(names) ==
  [n \in Range(names) |->
     (CHOOSE i \in 1..Len(names) :
        names[i] = n /\ \A j \in 1..Len(names) : names[j] = n => j <= i) - 1]

\* make_term_names with the unnamed end terminal pushed first.
make_term_names_eof_first(a) == <<None>> \o [i \in 1..Len(a.tokens) |-> Some(a.tokens[i])]

make_term_names(a) == [i \in 1..Len(a.tokens) |-> Some(a.tokens[i])] \o <<None>>

\* ast.precs.get(k).cloned()
precs_get(a, k) == IF k \in DOMAIN a.precs THEN Some(a.precs[k]) ELSE None

make_term_precs(a) == [i \in 1..Len(a.tokens) |-> precs_get(a, a.tokens[i])] \o <<None>>

\* term_map: only the named terminals are inserted.
make_term_map(term_names) ==
  LET named == {unwrap(term_names[i]) : i \in {j \in 1..Len(term_names) : is_some(term_names[j])}} IN
  [n \in named |->
     (CHOOSE i \in 1..Len(term_names) :
        term_names[i] = Some(n)
        /\ \A j \in 1..Len(term_names) : term_names[j] = Some(n) => j <= i) - 1]

\* What the main loop of YaccGrammar::new reads: the AST and the names and
\* maps computed before the loop.
compile_ctx(kind, a) ==
  LET names == make_nonterm_names(kind, a)
      tnames == make_term_names(a)
  IN [ast |-> a,
      start_nonterm |-> start_nonterm_name(a),
      implicit_nonterm |-> implicit_nonterm_name(kind, a),
      implicit_start_nonterm |-> implicit_start_nonterm_name(kind, a),
      nonterm_names |-> names,
      nonterm_map |-> make_nonterm_map(names),
      term_names |-> tnames,
      term_precs |-> make_term_precs(a),
      term_map |-> make_term_map(tnames)]

\* What the main loop writes.
compile_init(c) ==
  [prods |-> [i \in 1..Len(c.ast.prods) |-> None],
   prod_precs |-> [i \in 1..Len(c.ast.prods) |-> None],
   prods_rules |-> [i \in 1..Len(c.ast.prods) |-> None],
   rules_prods |-> [i \in 1..Len(c.nonterm_names) |-> <<>>],
   panicked |-> FALSE]

panic(st) == [st EXCEPT !.panicked = TRUE]

\* push_prod with the production's index taken after the push onto prods.
push_prod_index_after_push(st, rule_idx, body) ==
  [st EXCEPT !.rules_prods[rule_idx + 1] = Append(@, Len(st.prods) + 1),
             !.prods = Append(@, Some(body)),
             !.prod_precs = Append(@, Some(None)),
             !.prods_rules = Append(@, Some(rule_idx))]

\* The push of one synthesised production onto prods, prod_precs, prods_rules
\* and onto the production list of rule_idx.
push_prod(st, rule_idx, body) ==
  [st EXCEPT !.rules_prods[rule_idx + 1] = Append(@, Len(st.prods)),
             !.prods = Append(@, Some(body)),
             !.prod_precs = Append(@, Some(None)),
             !.prods_rules = Append(@, Some(rule_idx))]

\* start_prod_target that always refers to the user's start rule.
start_prod_target_always_user(c) == c.ast.start

\* The name the start production refers to: S, or ^~ when there is one.
start_prod_target(c) ==
  IF is_none(c.implicit_start_nonterm)
  THEN c.ast.start
  ELSE c.implicit_start_nonterm

\* The branch astrulename == &start_nonterm.
start_rule(c, st, rule_idx) ==
  LET s == start_prod_target(c) IN
  IF is_none(s) \/ unwrap(s) \notin DOMAIN c.nonterm_map
  THEN panic(st)
  ELSE push_prod(st, rule_idx, <<Nonterm(c.nonterm_map[unwrap(s)])>>)

\* The branch for the intermediate start rule ^~: ~ S.
implicit_start_rule(c, st, rule_idx) ==
  IF \/ is_none(c.ast.start)
     \/ unwrap(c.ast.start) \notin DOMAIN c.nonterm_map
     \/ unwrap(c.implicit_nonterm) \notin DOMAIN c.nonterm_map
  THEN panic(st)
  ELSE push_prod(st, rule_idx,
                 <<Nonterm(c.nonterm_map[unwrap(c.implicit_nonterm)]),
                   Nonterm(c.nonterm_map[unwrap(c.ast.start)])>>)

\* for t in ast.implicit_tokens.as_ref().unwrap().iter(), from the j-th on
RECURSIVE implicit_token_prods(_, _, _, _)
implicit_token_prods(c, st, rule_idx, j) ==
  LET toks == unwrap(c.ast.implicit_tokens) IN
  IF j > Len(toks)
  THEN st
  ELSE IF toks[j] \notin DOMAIN c.term_map
       THEN panic(st)
       ELSE implicit_token_prods(
              c,
              push_prod(st, rule_idx, <<Term(c.term_map[toks[j]]), Nonterm(rule_idx)>>),
              rule_idx, j + 1)

\* implicit_rule with the empty production added before the token productions.
implicit_rule_empty_first(c, st, rule_idx) ==
  implicit_token_prods(c, push_prod(st, rule_idx, <<>>), rule_idx, 1)

\* The branch for the implicit rule ~: t1 ~ | ... | tn ~ | ;
implicit_rule(c, st, rule_idx) ==
  LET st1 == implicit_token_prods(c, st, rule_idx, 1) IN
  IF st1.panicked THEN st1 ELSE push_prod(st1, rule_idx, <<>>)

\* compile_sym with the implicit nonterminal pushed after every symbol.
compile_sym_after_every_symbol(c, astsym) ==
  (IF astsym.tag = "Nonterm"
   THEN <<Nonterm(c.nonterm_map[astsym.v])>>
   ELSE <<Term(c.term_map[astsym.v])>>)
    \o (IF is_some(c.implicit_nonterm)
        THEN <<Nonterm(c.nonterm_map[unwrap(c.implicit_nonterm)])>>
        ELSE <<>>)

\* The symbols one AST symbol contributes to the compiled production.
compile_sym(c, astsym) ==
  IF astsym.tag = "Nonterm"
  THEN <<Nonterm(c.nonterm_map[astsym.v])>>
  ELSE <<Term(c.term_map[astsym.v])>>
         \o (IF is_some(c.implicit_nonterm)
             THEN <<Nonterm(c.nonterm_map[unwrap(c.implicit_nonterm)])>>
             ELSE <<>>)

\* for astsym in &astprod.symbols, from the i-th on
RECURSIVE compile_symbols(_, _, _)
compile_symbols(c, symbols, i) ==
  IF i > Len(symbols)
  THEN <<>>
  ELSE compile_sym(c, symbols[i]) \o compile_symbols(c, symbols, i + 1)

\* rev_scan_prec without the break: a terminal that has no precedence is
\* passed over and the scan goes on to the left.
RECURSIVE rev_scan_prec_no_break(_, _, _)
rev_scan_prec_no_break(a, symbols, i) ==
  IF i = 0
  THEN None
  ELSE IF symbols[i].tag = "Term" /\ symbols[i].v \in DOMAIN a.precs
       THEN Some(a.precs[symbols[i].v])
       ELSE rev_scan_prec_no_break(a, symbols, i - 1)

\* for astsym in astprod.symbols.iter().rev(), from the i-th (1-based) down
RECURSIVE rev_scan_prec(_, _, _)
rev_scan_prec(a, symbols, i) ==
  IF i = 0
  THEN None
  ELSE IF symbols[i].tag = "Term"
       THEN precs_get(a, symbols[i].v)
       ELSE rev_scan_prec(a, symbols, i - 1)

\* infer_prec with the override looked at only when the scan found nothing.
infer_prec_scan_first(a, astprod) ==
  LET scanned == rev_scan_prec(a, astprod.symbols, Len(astprod.symbols)) IN
  IF is_some(scanned) \/ is_none(astprod.precedence)
  THEN scanned
  ELSE Some(a.precs[unwrap(astprod.precedence)])

\* The precedence computed for a user production.
infer_prec(a, astprod) ==
  IF is_some(astprod.precedence)
  THEN Some(a.precs[unwrap(astprod.precedence)])
  ELSE rev_scan_prec(a, astprod.symbols, Len(astprod.symbols))

\* Does compiling this production index a map with a key it does not hold?
prod_lookup_fails(c, astprod) ==
  \/ \E i \in 1..Len(astprod.symbols) :
       LET sym == astprod.symbols[i] IN
       \/ sym.tag = "Nonterm" /\ sym.v \notin DOMAIN c.nonterm_map
       \/ sym.tag = "Term" /\ sym.v \notin DOMAIN c.term_map
  \/ is_some(astprod.precedence) /\ unwrap(astprod.precedence) \notin DOMAIN c.ast.precs

\* compile_body with the position in the rule's list used as the index into
\* ast.prods.
compile_body_by_position(c, prod_idxs, j) ==
  compile_symbols(c, At(c.ast.prods, j - 1).symbols, 1)

\* The compiled body of the j-th production of a rule: that of
\* ast.prods[prod_idx].
compile_body(c, prod_idxs, j) ==
  compile_symbols(c, At(c.ast.prods, prod_idxs[j]).symbols, 1)

\* for &prod_idx in &ast.rules[astrulename], from the j-th on
RECURSIVE user_prods(_, _, _, _, _)
user_prods(c, st, rule_idx, prod_idxs, j) ==
  IF j > Len(prod_idxs)
  THEN st
  ELSE LET prod_idx == prod_idxs[j]
           astprod == At(c.ast.prods, prod_idx)
       IN IF prod_lookup_fails(c, astprod)
          THEN panic(st)
          ELSE user_prods(
                 c,
                 [st EXCEPT
                    !.rules_prods[rule_idx + 1] = Append(@, prod_idx),
                    !.prods[prod_idx + 1] = Some(compile_body(c, prod_idxs, j)),
                    !.prod_precs[prod_idx + 1] = Some(infer_prec(c.ast, astprod)),
                    !.prods_rules[prod_idx + 1] = Some(rule_idx)],
                 rule_idx, prod_idxs, j + 1)

\* The branch for a rule of the AST.
user_rule(c, st, rule_idx, astrulename) ==
  IF ~rules_contains_key(c.ast.rules, astrulename)
  THEN panic(st)
  ELSE user_prods(c, st, rule_idx, rules_get(c.ast.rules, astrulename), 1)

\* compile_rule giving the implicit rule its token productions only.
compile_rule_tokens_only(c, st, astrulename) ==
  LET rule_idx == c.nonterm_map[astrulename] IN
  IF astrulename = c.start_nonterm
  THEN start_rule(c, st, rule_idx)
  ELSE IF is_some(c.implicit_start_nonterm) /\ unwrap(c.implicit_start_nonterm) = astrulename
       THEN implicit_start_rule(c, st, rule_idx)
       ELSE IF is_some(c.implicit_nonterm) /\ unwrap(c.implicit_nonterm) = astrulename
            THEN implicit_token_prods(c, st, rule_idx, 1)
            ELSE user_rule(c, st, rule_idx, astrulename)

\* The body of the main loop for one name of nonterm_names.
compile_rule(c, st, astrulename) ==
  LET rule_idx == c.nonterm_map[astrulename] IN
  IF astrulename = c.start_nonterm
  THEN start_rule(c, st, rule_idx)
  ELSE IF is_some(c.implicit_start_nonterm) /\ unwrap(c.implicit_start_nonterm) = astrulename
       THEN implicit_start_rule(c, st, rule_idx)
       ELSE IF is_some(c.implicit_nonterm) /\ unwrap(c.implicit_nonterm) = astrulename
            THEN implicit_rule(c, st, rule_idx)
            ELSE user_rule(c, st, rule_idx, astrulename)

\* for astrulename in &nonterm_names, from the i-th on
RECURSIVE compile_rules(_, _, _)
compile_rules(c, st, i) ==
  IF i > Len(c.nonterm_names) \/ st.panicked
  THEN st
  ELSE compile_rules(c, compile_rule(c, st, c.nonterm_names[i]), i + 1)

unwrap_all(v) == [i \in 1..Len(v) |-> unwrap(v[i])]

\* YaccGrammar::new: the grammar built, or Panic.
new_grammar(kind, a) ==
  LET c == compile_ctx(kind, a)
      st == compile_rules(c, compile_init(c), 1)
  IN IF \/ st.panicked
        \/ \E i \in 1..Len(st.prods) : is_none(st.prods[i])
        \/ st.rules_prods[c.nonterm_map[c.start_nonterm] + 1] = <<>>
     THEN Panic
     ELSE [nonterms_len |-> Len(c.nonterm_names),
           nonterm_names |-> c.nonterm_names,
           term_names |-> c.term_names,
           term_precs |-> c.term_precs,
           terms_len |-> Len(c.term_names),
           eof_term_idx |-> Len(c.term_names) - 1,
           prods_len |-> Len(st.prods),
           start_prod |-> At(st.rules_prods[c.nonterm_map[c.start_nonterm] + 1], 0),
           prods |-> unwrap_all(st.prods),
           rules_prods |-> st.rules_prods,
           prods_rules |-> unwrap_all(st.prods_rules),
           prod_precs |-> unwrap_all(st.prod_precs),
           implicit_nonterm |->
             IF is_some(c.implicit_nonterm)
             THEN Some(c.nonterm_map[unwrap(c.implicit_nonterm)])
             ELSE None]

(***************************************************************************)
(* grammar.rs: the queries of YaccGrammar.                                 *)
(***************************************************************************)
eof_term_idx(g) == g.eof_term_idx

nonterm_to_prods(g, i) == At(g.rules_prods, i)

nonterm_name(g, i) == At(g.nonterm_names, i)

prod(g, i) == At(g.prods, i)

prod_to_nonterm(g, i) == At(g.prods_rules, i)

prod_precedence(g, i) == At(g.prod_precs, i)

term_name(g, i) == At(g.term_names, i)

term_precedence(g, i) == At(g.term_precs, i)

start_prod(g) == g.start_prod

implicit_nonterm(g) == g.implicit_nonterm

\* iter().position(|x| x == n): the first index holding n
nonterm_idx(g, n) ==
  IF \E i \in 1..Len(g.nonterm_names) : g.nonterm_names[i] = n
  THEN Some((CHOOSE i \in 1..Len(g.nonterm_names) :
               g.nonterm_names[i] = n
               /\ \A j \in 1..Len(g.nonterm_names) : g.nonterm_names[j] = n => i <= j) - 1)
  ELSE None

term_idx(g, n) ==
  IF \E i \in 1..Len(g.term_names) : g.term_names[i] = Some(n)
  THEN Some((CHOOSE i \in 1..Len(g.term_names) :
               g.term_names[i] = Some(n)
               /\ \A j \in 1..Len(g.term_names) : g.term_names[j] = Some(n) => i <= j) - 1)
  ELSE None

\* terms_map: m after the for loop has run over 0..i.
terms_map(g) ==
  LET m[i \in 0..g.terms_len] ==
        IF i = 0 THEN <<>>
        ELSE IF is_some(At(g.term_names, i - 1))
             THEN [n \in (DOMAIN m[i - 1]) \cup {unwrap(At(g.term_names, i - 1))} |->
                     IF n = unwrap(At(g.term_names, i - 1)) THEN i - 1 ELSE m[i - 1][n]]
             ELSE m[i - 1]
  IN m[g.terms_len]

start_rule_idx(g) == prod_to_nonterm(g, g.start_prod)

(***************************************************************************)
(* grammar.rs: YaccGrammar::has_path.                                      *)
(***************************************************************************)

\* The nonterminals in the bodies of nonterminal i's productions, in the
\* order the two inner for loops meet them.
RECURSIVE nonterms_of_prods(_, _, _)
nonterms_of_prods(g, p_idxs, j) ==
  IF j > Len(p_idxs)
  THEN <<>>
  ELSE SelectSeq(prod(g, p_idxs[j]), LAMBDA sym : sym.tag = "Nonterm")
         \o nonterms_of_prods(g, p_idxs, j + 1)

\* has_path_visit with nt_idx == to tested only where seen[nt_idx] is false.
has_path_visit_unseen_only(g, to, seen, todo, i) ==
  LET seen1 == [seen EXCEPT ![i + 1] = TRUE]
      todo1 == [todo EXCEPT ![i + 1] = FALSE]
      nts == Range(nonterms_of_prods(g, nonterm_to_prods(g, i), 1))
  IN IF \E sym \in nts : sym.v = to /\ ~seen1[sym.v + 1]
     THEN [found |-> TRUE, seen |-> seen1, todo |-> todo1]
     ELSE [found |-> FALSE,
           seen |-> seen1,
           todo |-> [k \in 1..Len(todo1) |->
                      todo1[k] \/ (Nonterm(k - 1) \in nts /\ ~seen1[k])]]

\* The body of `for i` for an i with todo[i] set: i is marked seen and its
\* productions are scanned; found is the early `return true`.
has_path_visit(g, to, seen, todo, i) ==
  LET seen1 == [seen EXCEPT ![i + 1] = TRUE]
      todo1 == [todo EXCEPT ![i + 1] = FALSE]
      nts == Range(nonterms_of_prods(g, nonterm_to_prods(g, i), 1))
  IN IF Nonterm(to) \in nts
     THEN [found |-> TRUE, seen |-> seen1, todo |-> todo1]
     ELSE [found |-> FALSE,
           seen |-> seen1,
           todo |-> [k \in 1..Len(todo1) |->
                      todo1[k] \/ (Nonterm(k - 1) \in nts /\ ~seen1[k])]]

\* for i in 0..nonterms_len, from i on, within one iteration of `loop`.
RECURSIVE has_path_for(_, _, _, _, _, _)
has_path_for(g, to, seen, todo, empty, i) ==
  IF i = g.nonterms_len
  THEN [found |-> FALSE, seen |-> seen, todo |-> todo, empty |-> empty]
  ELSE IF ~todo[i + 1]
       THEN has_path_for(g, to, seen, todo, empty, i + 1)
       ELSE LET v == has_path_visit(g, to, seen, todo, i) IN
            IF v.found
            THEN [found |-> TRUE, seen |-> v.seen, todo |-> v.todo, empty |-> FALSE]
            ELSE has_path_for(g, to, v.seen, v.todo, FALSE, i + 1)

\* The iterations of `loop`.
RECURSIVE has_path_loop(_, _, _, _)
has_path_loop(g, to, seen, todo) ==
  LET r == has_path_for(g, to, seen, todo, TRUE, 0) IN
  IF r.found
  THEN TRUE
  ELSE IF r.empty THEN FALSE ELSE has_path_loop(g, to, r.seen, r.todo)

has_path(g, from, to) ==
  has_path_loop(g, to,
                [k \in 1..g.nonterms_len |-> FALSE],
                [k \in 1..g.nonterms_len |-> k = from + 1])

(***************************************************************************)
(* grammar.rs: nonterm_min_costs.                                          *)
(*                                                                         *)
(* A run is the local state of the function between two iterations of its  *)
(* `loop`: the vectors costs and done, and panicked once an expect or (in   *)
(* a debug build) a debug_assert! has failed.  build is "debug" or         *)
(* "release".                                                              *)
(***************************************************************************)
Builds == {"debug", "release"}

\* A u32 is the pair <<hi, lo>> of its two 16-bit halves: its value is
\* hi * 2^16 + lo.
HALF == 65536

\* `n as u32` for a u8 (or any number below 2^31).
U32(n) == <<n \div HALF, n % HALF>>

\* u32::max_value()
U32_MAX == <<HALF - 1, HALF - 1>>

\* a < b on u32
U32_lt(a, b) == a[1] < b[1] \/ (a[1] = b[1] /\ a[2] < b[2])

\* u32::checked_add
checked_add(a, b) ==
  LET lo == a[2] + b[2]
      hi == a[1] + b[1] + (lo \div HALF)
  IN IF hi >= HALF THEN None ELSE Some(<<hi, lo % HALF>>)

new_run_costs_one(g) ==
  [costs |-> [k \in 1..g.nonterms_len |-> U32(1)],
   done |-> [k \in 1..g.nonterms_len |-> FALSE],
   panicked |-> FALSE]

new_run(g) ==
  [costs |-> [k \in 1..g.nonterms_len |-> U32(0)],
   done |-> [k \in 1..g.nonterms_len |-> FALSE],
   panicked |-> FALSE]

\* for sym in grm.prod(*p_idx), from the k-th symbol on: the production's
\* cost c and whether every nonterminal in it is done.
RECURSIVE min_prod_cost(_, _, _, _, _, _)
min_prod_cost(term_costs, run, body, k, c, cmplt) ==
  IF k > Len(body)
  THEN [c |-> c, cmplt |-> cmplt, panicked |-> FALSE]
  ELSE LET sym == body[k]
           sc == IF sym.tag = "Term" THEN U32(At(term_costs, sym.v)) ELSE At(run.costs, sym.v)
           cmplt1 == cmplt /\ (sym.tag = "Term" \/ At(run.done, sym.v))
           sum == checked_add(c, sc)
       IN IF is_none(sum)
          THEN [c |-> c, cmplt |-> cmplt1, panicked |-> TRUE]
          ELSE min_prod_cost(term_costs, run, body, k + 1, unwrap(sum), cmplt1)

\* for p_idx in grm.nonterm_to_prods(i), from the j-th production on.
RECURSIVE min_lowest(_, _, _, _, _, _, _)
min_lowest(g, term_costs, run, p_idxs, j, ls_cmplt, ls_noncmplt) ==
  IF j > Len(p_idxs)
  THEN [ls_cmplt |-> ls_cmplt, ls_noncmplt |-> ls_noncmplt, panicked |-> FALSE]
  ELSE LET pc == min_prod_cost(term_costs, run, prod(g, p_idxs[j]), 1, U32(0), TRUE) IN
       IF pc.panicked
       THEN [ls_cmplt |-> ls_cmplt, ls_noncmplt |-> ls_noncmplt, panicked |-> TRUE]
       ELSE IF pc.cmplt /\ (is_none(ls_cmplt) \/ U32_lt(pc.c, unwrap(ls_cmplt)))
            THEN min_lowest(g, term_costs, run, p_idxs, j + 1, Some(pc.c), ls_noncmplt)
            ELSE IF ~pc.cmplt /\ (is_none(ls_noncmplt) \/ U32_lt(pc.c, unwrap(ls_noncmplt)))
                 THEN min_lowest(g, term_costs, run, p_idxs, j + 1, ls_cmplt, Some(pc.c))
                 ELSE min_lowest(g, term_costs, run, p_idxs, j + 1, ls_cmplt, ls_noncmplt)

\* debug_assert!(c >= costs[i]), then costs[i] = c.
assign_cost(build, run, i, c) ==
  IF build = "debug" /\ U32_lt(c, At(run.costs, i))
  THEN [run EXCEPT !.panicked = TRUE]
  ELSE [run EXCEPT !.costs[i + 1] = c]

\* min_visit finalising i as soon as it has a complete production.
min_visit_first_complete(build, g, term_costs, run, i) ==
  LET l == min_lowest(g, term_costs, run, nonterm_to_prods(g, i), 1, None, None) IN
  IF l.panicked
  THEN [run EXCEPT !.panicked = TRUE]
  ELSE IF is_some(l.ls_cmplt)
       THEN [run EXCEPT !.costs[i + 1] = unwrap(l.ls_cmplt), !.done[i + 1] = TRUE]
       ELSE IF is_some(l.ls_noncmplt)
            THEN assign_cost(build, run, i, unwrap(l.ls_noncmplt))
            ELSE run

\* The body of `for i` for an i that is not done.
min_visit(build, g, term_costs, run, i) ==
  LET l == min_lowest(g, term_costs, run, nonterm_to_prods(g, i), 1, None, None) IN
  IF l.panicked
  THEN [run EXCEPT !.panicked = TRUE]
  ELSE IF is_some(l.ls_cmplt)
          /\ (is_none(l.ls_noncmplt) \/ U32_lt(unwrap(l.ls_cmplt), unwrap(l.ls_noncmplt)))
       THEN LET r == assign_cost(build, run, i, unwrap(l.ls_cmplt)) IN
            IF r.panicked THEN r ELSE [r EXCEPT !.done[i + 1] = TRUE]
       ELSE IF is_some(l.ls_noncmplt)
            THEN assign_cost(build, run, i, unwrap(l.ls_noncmplt))
            ELSE run

\* for i in 0..done.len(), from i on, within one iteration of `loop`.
RECURSIVE min_for(_, _, _, _, _, _)
min_for(build, g, term_costs, run, i, all_done) ==
  IF run.panicked \/ i = Len(run.done)
  THEN [run |-> run, all_done |-> all_done]
  ELSE IF At(run.done, i)
       THEN min_for(build, g, term_costs, run, i + 1, all_done)
       ELSE min_for(build, g, term_costs, min_visit(build, g, term_costs, run, i),
                    i + 1, FALSE)

(***************************************************************************)
(* grammar.rs: nonterm_max_costs.                                          *)
(***************************************************************************)

\* mark_recursive marking nothing.
mark_recursive_nothing(g) ==
  [costs |-> [k \in 1..g.nonterms_len |-> U32(0)],
   done |-> [k \in 1..g.nonterms_len |-> FALSE],
   panicked |-> FALSE]

\* "First mark all recursive non-terminals": the run the loop starts from.
mark_recursive(g) ==
  [costs |-> [k \in 1..g.nonterms_len |->
                IF has_path(g, k - 1, k - 1) THEN U32_MAX ELSE U32(0)],
   done |-> [k \in 1..g.nonterms_len |-> has_path(g, k - 1, k - 1)],
   panicked |-> FALSE]

\* for sym in grm.prod(*p_idx), from the k-th symbol on; infinite is the
\* `break 'a` taken at a nonterminal whose cost is u32::max_value().
RECURSIVE max_prod_cost(_, _, _, _, _, _)
max_prod_cost(term_costs, run, body, k, c, cmplt) ==
  IF k > Len(body)
  THEN [c |-> c, cmplt |-> cmplt, infinite |-> FALSE, panicked |-> FALSE]
  ELSE LET sym == body[k] IN
       IF sym.tag = "Nonterm" /\ At(run.costs, sym.v) = U32_MAX
       THEN [c |-> c, cmplt |-> cmplt, infinite |-> TRUE, panicked |-> FALSE]
       ELSE LET sc == IF sym.tag = "Term"
                      THEN U32(At(term_costs, sym.v))
                      ELSE At(run.costs, sym.v)
                cmplt1 == cmplt /\ (sym.tag = "Term" \/ At(run.done, sym.v))
                sum == checked_add(c, sc)
            IN IF is_none(sum) \/ sum = Some(U32_MAX)
               THEN [c |-> c, cmplt |-> cmplt1, infinite |-> FALSE, panicked |-> TRUE]
               ELSE max_prod_cost(term_costs, run, body, k + 1, unwrap(sum), cmplt1)

\* 'a: for p_idx in grm.nonterm_to_prods(i), from the j-th production on.
RECURSIVE max_highest(_, _, _, _, _, _, _)
max_highest(g, term_costs, run, p_idxs, j, hs_cmplt, hs_noncmplt) ==
  IF j > Len(p_idxs)
  THEN [hs_cmplt |-> hs_cmplt, hs_noncmplt |-> hs_noncmplt, panicked |-> FALSE]
  ELSE LET pc == max_prod_cost(term_costs, run, prod(g, p_idxs[j]), 1, U32(0), TRUE) IN
       IF pc.panicked
       THEN [hs_cmplt |-> hs_cmplt, hs_noncmplt |-> hs_noncmplt, panicked |-> TRUE]
       ELSE IF pc.infinite
            THEN [hs_cmplt |-> Some(U32_MAX), hs_noncmplt |-> hs_noncmplt,
                  panicked |-> FALSE]
            ELSE IF pc.cmplt /\ (is_none(hs_cmplt) \/ U32_lt(unwrap(hs_cmplt), pc.c))
                 THEN max_highest(g, term_costs, run, p_idxs, j + 1, Some(pc.c), hs_noncmplt)
                 ELSE IF ~pc.cmplt
                         /\ (is_none(hs_noncmplt) \/ U32_lt(unwrap(hs_noncmplt), pc.c))
                      THEN max_highest(g, term_costs, run, p_idxs, j + 1,
                                       hs_cmplt, Some(pc.c))
                      ELSE max_highest(g, term_costs, run, p_idxs, j + 1,
                                       hs_cmplt, hs_noncmplt)

\* The body of `for i` for an i that is not done.
max_visit(build, g, term_costs, run, i) ==
  LET h == max_highest(g, term_costs, run, nonterm_to_prods(g, i), 1, None, None) IN
  IF h.panicked
  THEN [run EXCEPT !.panicked = TRUE]
  ELSE IF is_some(h.hs_cmplt)
          /\ (is_none(h.hs_noncmplt) \/ U32_lt(unwrap(h.hs_noncmplt), unwrap(h.hs_cmplt)))
       THEN LET r == assign_cost(build, run, i, unwrap(h.hs_cmplt)) IN
            IF r.panicked THEN r ELSE [r EXCEPT !.done[i + 1] = TRUE]
       ELSE IF is_some(h.hs_noncmplt)
            THEN assign_cost(build, run, i, unwrap(h.hs_noncmplt))
            ELSE run

\* for i in 0..done.len(), from i on, within one iteration of `loop`.
RECURSIVE max_for(_, _, _, _, _, _)
max_for(build, g, term_costs, run, i, all_done) ==
  IF run.panicked \/ i = Len(run.done)
  THEN [run |-> run, all_done |-> all_done]
  ELSE IF At(run.done, i)
       THEN max_for(build, g, term_costs, run, i + 1, all_done)
       ELSE max_for(build, g, term_costs, max_visit(build, g, term_costs, run, i),
                    i + 1, FALSE)

(***************************************************************************)
(* grammar.rs: min_sentence and min_sentences.                             *)
(*                                                                         *)
(* Both read the minimum costs min_costs through min_sentence_cost.  A     *)
(* call returns [tag |-> "ok", val |-> ...], panics (Panic) or is still    *)
(* running (Running) after the MaxSteps steps it is followed for.          *)
(***************************************************************************)
Running(op) == [tag |-> "running", op |-> op]

Returned(v) == [tag |-> "ok", val |-> v]

\* `sc += x` on u32: on overflow a debug build panics (None) and a release
\* build wraps.
add_assign(build, sc, x) ==
  LET lo == sc[2] + x[2]
      hi == sc[1] + x[1] + (lo \div HALF)
  IN IF hi >= HALF /\ build = "debug" THEN None ELSE Some(<<hi % HALF, lo % HALF>>)

\* let mut sc = 0; for sym in self.grm.prod(pidx).iter() { sc += ... }, from
\* the k-th symbol on.
RECURSIVE prod_sc(_, _, _, _, _, _)
prod_sc(build, term_costs, min_costs, body, k, sc) ==
  IF k > Len(body)
  THEN Some(sc)
  ELSE LET sym == body[k]
           x == IF sym.tag = "Term" THEN U32(At(term_costs, sym.v)) ELSE At(min_costs, sym.v)
           sum == add_assign(build, sc, x)
       IN IF is_none(sum) THEN None
          ELSE prod_sc(build, term_costs, min_costs, body, k + 1, unwrap(sum))

\* The for loop of the closure cheapest_prod, from the j-th production on.
RECURSIVE cheapest_prod_for(_, _, _, _, _, _, _, _)
cheapest_prod_for(build, g, term_costs, min_costs, p_idxs, j, low_sc, low_idx) ==
  IF j > Len(p_idxs)
  THEN [panicked |-> is_none(low_idx), low_idx |-> low_idx]
  ELSE LET sc == prod_sc(build, term_costs, min_costs, prod(g, p_idxs[j]), 1, U32(0)) IN
       IF is_none(sc)
       THEN [panicked |-> TRUE, low_idx |-> low_idx]
       ELSE IF is_none(low_sc) \/ U32_lt(unwrap(sc), unwrap(low_sc))
            THEN cheapest_prod_for(build, g, term_costs, min_costs, p_idxs, j + 1,
                                   sc, Some(p_idxs[j]))
            ELSE cheapest_prod_for(build, g, term_costs, min_costs, p_idxs, j + 1,
                                   low_sc, low_idx)

cheapest_prod(build, g, term_costs, min_costs, nt_idx) ==
  cheapest_prod_for(build, g, term_costs, min_costs, nonterm_to_prods(g, nt_idx), 1, None, None)

\* for (i, sym) in self.grm.prod(p_idx).iter().enumerate().skip(sym_idx), from
\* i on: a terminal is pushed on s; a nonterminal pushes (p_idx, i + 1) and
\* its cheapest production on st, and the for goes on to the next symbol.
RECURSIVE min_sentence_for(_, _, _, _, _, _, _, _)
min_sentence_for(build, g, term_costs, min_costs, p_idx, i, s, st) ==
  IF i >= Len(prod(g, p_idx))
  THEN [s |-> s, st |-> st, panicked |-> FALSE]
  ELSE LET sym == At(prod(g, p_idx), i) IN
       IF sym.tag = "Term"
       THEN min_sentence_for(build, g, term_costs, min_costs, p_idx, i + 1,
                             Append(s, sym.v), st)
       ELSE LET cp == cheapest_prod(build, g, term_costs, min_costs, sym.v) IN
            IF cp.panicked
            THEN [s |-> s, st |-> st, panicked |-> TRUE]
            ELSE min_sentence_for(build, g, term_costs, min_costs, p_idx, i + 1, s,
                                  st \o <<<<p_idx, i + 1>>, <<unwrap(cp.low_idx), 0>>>>)

\* while !st.is_empty(), followed for up to steps iterations.
RECURSIVE min_sentence_while(_, _, _, _, _, _, _)
min_sentence_while(build, g, term_costs, min_costs, s, st, steps) ==
  IF st = <<>>
  THEN Returned(s)
  ELSE IF steps = 0
       THEN Running("min_sentence")
       ELSE LET top == st[Len(st)]
                f == min_sentence_for(build, g, term_costs, min_costs, top[1], top[2], s,
                                      SubSeq(st, 1, Len(st) - 1))
            IN IF f.panicked THEN Panic
               ELSE min_sentence_while(build, g, term_costs, min_costs, f.s, f.st, steps - 1)

\* SentenceGenerator::min_sentence
min_sentence(build, g, term_costs, min_costs, nt_idx, steps) ==
  LET cp == cheapest_prod(build, g, term_costs, min_costs, nt_idx) IN
  IF cp.panicked THEN Panic
  ELSE min_sentence_while(build, g, term_costs, min_costs, <<>>,
                          <<<<unwrap(cp.low_idx), 0>>>>, steps)

\* cheapest_prods keeping only the first of the productions that tie.
cheapest_prods_visit_first(sc, p_idx, low) ==
  IF is_none(low.low_sc) \/ U32_lt(sc, unwrap(low.low_sc))
  THEN [low_sc |-> Some(sc), low_idxs |-> <<p_idx>>]
  ELSE low

\* The body of the for loop of the closure cheapest_prods after sc has been
\* summed.
cheapest_prods_visit(sc, p_idx, low) ==
  IF is_none(low.low_sc) \/ ~U32_lt(unwrap(low.low_sc), sc)
  THEN [low_sc |-> Some(sc),
        low_idxs |-> Append(IF is_some(low.low_sc) /\ U32_lt(sc, unwrap(low.low_sc))
                            THEN <<>> ELSE low.low_idxs, p_idx)]
  ELSE low

\* The for loop of the closure cheapest_prods, from the j-th production on.
RECURSIVE cheapest_prods_for(_, _, _, _, _, _, _)
cheapest_prods_for(build, g, term_costs, min_costs, p_idxs, j, low) ==
  IF j > Len(p_idxs)
  THEN [panicked |-> FALSE, low_idxs |-> low.low_idxs]
  ELSE LET sc == prod_sc(build, term_costs, min_costs, prod(g, p_idxs[j]), 1, U32(0)) IN
       IF is_none(sc)
       THEN [panicked |-> TRUE, low_idxs |-> low.low_idxs]
       ELSE cheapest_prods_for(build, g, term_costs, min_costs, p_idxs, j + 1,
                               cheapest_prods_visit(unwrap(sc), p_idxs[j], low))

cheapest_prods(build, g, term_costs, min_costs, nt_idx) ==
  cheapest_prods_for(build, g, term_costs, min_costs, nonterm_to_prods(g, nt_idx), 1,
                     [low_sc |-> None, low_idxs |-> <<>>])

\* for i in 0..todo.len() { cur.extend(&ms[i][todo[i]]) }, from i on.
RECURSIVE extend_cur(_, _, _, _)
extend_cur(ms, todo, i, cur) ==
  IF i = Len(todo) THEN cur
  ELSE extend_cur(ms, todo, i + 1, cur \o At(At(ms, i), At(todo, i)))

\* The inner loop that adds one to todo, at column j: the next todo, or None
\* at break 'b.
RECURSIVE next_todo(_, _, _)
next_todo(ms, todo, j) ==
  IF At(todo, j) + 1 = Len(At(ms, j))
  THEN IF j = 0 THEN None
       ELSE next_todo(ms, [todo EXCEPT ![j + 1] = 0], j - 1)
  ELSE Some([todo EXCEPT ![j + 1] = At(todo, j) + 1])

\* 'b: loop: the sentences pushed on sts from todo on.  An ms[i] without
\* sentences makes ms[i][todo[i]] panic.
RECURSIVE combinations(_, _, _)
combinations(ms, todo, sts) ==
  IF \E i \in 1..Len(ms) : ms[i] = <<>>
  THEN Panic
  ELSE LET sts1 == Append(sts, extend_cur(ms, todo, 0, <<>>))
           nxt == next_todo(ms, todo, Len(todo) - 1)
       IN IF is_none(nxt) THEN Returned(sts1)
          ELSE combinations(ms, unwrap(nxt), sts1)

\* SentenceGenerator::min_sentences, its recursion followed to depth steps.
RECURSIVE min_sentences(_, _, _, _, _, _)
RECURSIVE min_sentences_ms(_, _, _, _, _, _, _, _)
RECURSIVE min_sentences_for(_, _, _, _, _, _, _, _)

\* for sym in prod, from the k-th symbol on: ms.
min_sentences_ms(build, g, term_costs, min_costs, body, k, ms, steps) ==
  IF k > Len(body)
  THEN Returned(ms)
  ELSE IF body[k].tag = "Term"
       THEN min_sentences_ms(build, g, term_costs, min_costs, body, k + 1,
                             Append(ms, <<<<body[k].v>>>>), steps)
       ELSE LET r == min_sentences(build, g, term_costs, min_costs, body[k].v, steps) IN
            IF r.tag # "ok" THEN r
            ELSE min_sentences_ms(build, g, term_costs, min_costs, body, k + 1,
                                  Append(ms, r.val), steps)

\* for p_idx in cheapest_prods(nonterm_idx), from the j-th one on.
min_sentences_for(build, g, term_costs, min_costs, p_idxs, j, sts, steps) ==
  IF j > Len(p_idxs)
  THEN Returned(sts)
  ELSE LET body == prod(g, p_idxs[j]) IN
       IF body = <<>>
       THEN min_sentences_for(build, g, term_costs, min_costs, p_idxs, j + 1,
                              Append(sts, <<>>), steps)
       ELSE LET ms == min_sentences_ms(build, g, term_costs, min_costs, body, 1, <<>>, steps)
            IN IF ms.tag # "ok" THEN ms
               ELSE LET c == combinations(ms.val, [k \in 1..Len(body) |-> 0], sts) IN
                    IF c.tag # "ok" THEN c
                    ELSE min_sentences_for(build, g, term_costs, min_costs, p_idxs, j + 1,
                                           c.val, steps)

min_sentences(build, g, term_costs, min_costs, nt_idx, steps) ==
  IF steps = 0
  THEN Running("min_sentences")
  ELSE LET cps == cheapest_prods(build, g, term_costs, min_costs, nt_idx) IN
       IF cps.panicked THEN Panic
       ELSE min_sentences_for(build, g, term_costs, min_costs, cps.low_idxs, 1, <<>>,
                              steps - 1)

(***************************************************************************)
(* The operations on one GrammarAST and the grammar compiled from it.      *)
(*                                                                         *)
(* result is the value the last complete_and_validate call returned on the *)
(* AST as it is now (None when the AST was changed since, or never         *)
(* validated).  The AST is frozen once validation returned Ok, and only a  *)
(* validated AST is handed to YaccGrammar::new; grm is what that call      *)
(* produced and yacc_kind the YaccKind it was given.  sg is the            *)
(* SentenceGenerator made from grm (None before sentence_generator is      *)
(* called); min_run and max_run hold the local vectors of a running        *)
(* nonterm_min_costs or nonterm_max_costs call between two passes of its   *)
(* loop; ret is what the last query returned.                              *)
(***************************************************************************)
YaccKind == {"Original", "Eco"}

\* The bodies add_prod is given: up to MaxSyms symbols.
Bodies(symbols) == UNION {[1..n -> symbols] : n \in 0..MaxSyms}

Init ==
  /\ ast = GrammarAST_new
  /\ result = None
  /\ grm = None
  /\ yacc_kind = None
  /\ sg = None
  /\ min_run = None
  /\ max_run = None
  /\ ret = None

\* The AST may still be mutated: validation has not returned Ok on it.
Building == result # Some(Ok)

\* grm.start = Some(s)
set_start(s) ==
  /\ Building
  /\ ast' = [ast EXCEPT !.start = Some(s)]
  /\ result' = None
  /\ UNCHANGED <<grm, yacc_kind, sg, min_run, max_run, ret>>

\* grm.tokens.insert(n)
tokens_insert(n) ==
  /\ Building
  /\ ~HashSet_contains(ast.tokens, n)
  /\ \E order \in HashSet_insert(ast.tokens, n) :
       ast' = [ast EXCEPT !.tokens = order]
  /\ result' = None
  /\ UNCHANGED <<grm, yacc_kind, sg, min_run, max_run, ret>>

\* grm.precs.insert(n, p)
precs_insert(n, p) ==
  /\ Building
  /\ ast' = [ast EXCEPT !.precs = [x \in (DOMAIN ast.precs) \cup {n} |->
                                     IF x = n THEN p ELSE ast.precs[x]]]
  /\ result' = None
  /\ UNCHANGED <<grm, yacc_kind, sg, min_run, max_run, ret>>

\* grm.implicit_tokens = Some(set)
set_implicit_tokens(set) ==
  /\ Building
  /\ \E order \in Orders(set) :
       ast' = [ast EXCEPT !.implicit_tokens = Some(order)]
  /\ result' = None
  /\ UNCHANGED <<grm, yacc_kind, sg, min_run, max_run, ret>>

add_prod(key, symbols, precedence) ==
  /\ Building
  /\ Len(ast.prods) < MaxProds
  /\ ast' = add_prod_ast(ast, key, symbols, precedence)
  /\ result' = None
  /\ UNCHANGED <<grm, yacc_kind, sg, min_run, max_run, ret>>

\* add_prod, the call being kept in ret.
call_add_prod(key, symbols, precedence) ==
  /\ Building
  /\ Len(ast.prods) < MaxBuildProds
  /\ ast' = add_prod_ast(ast, key, symbols, precedence)
  /\ result' = None
  /\ ret' = Some([op |-> "add_prod", args |-> <<key, symbols, precedence>>, val |-> None])
  /\ UNCHANGED <<grm, yacc_kind, sg, min_run, max_run>>

\* complete_and_validate forgetting the start rule once it has looked at it.
complete_and_validate_takes_start ==
  /\ result' = Some(validate(ast))
  /\ ast' = [ast EXCEPT !.start = None]
  /\ UNCHANGED <<grm, yacc_kind, sg, min_run, max_run, ret>>

complete_and_validate ==
  /\ result' = Some(validate(ast))
  /\ UNCHANGED <<ast, grm, yacc_kind, sg, min_run, max_run, ret>>

YaccGrammar_new(kind) ==
  /\ result = Some(Ok)
  /\ grm' = Some(new_grammar(kind, ast))
  /\ yacc_kind' = Some(kind)
  /\ UNCHANGED <<ast, result, sg, min_run, max_run, ret>>

\* A query on the compiled grammar, made when the caller holds no earlier
\* return value: grm.has_path(from, to).
call_has_path(from, to) ==
  /\ is_none(ret)
  /\ is_some(grm)
  /\ unwrap(grm) # Panic
  /\ from < unwrap(grm).nonterms_len
  /\ to < unwrap(grm).nonterms_len
  /\ ret' = Some([op |-> "has_path", args |-> <<from, to>>,
                  val |-> has_path(unwrap(grm), from, to)])
  /\ UNCHANGED <<ast, result, grm, yacc_kind, sg, min_run, max_run>>

\* SentenceGenerator::new, term_cost being the vector of the costs the
\* caller's closure gives to the terminals.
SentenceGenerator_new(g, term_cost) ==
  [term_costs |-> [k \in 1..g.terms_len |-> term_cost[k]],
   nonterm_min_costs |-> None,
   nonterm_max_costs |-> None]

\* The process has been aborted by a panic.
Aborted ==
  \/ is_some(min_run) /\ unwrap(min_run).panicked
  \/ is_some(max_run) /\ unwrap(max_run).panicked
  \/ is_some(ret) /\ unwrap(ret) = Panic

\* The last query has not returned.
Stuck == is_some(ret) /\ unwrap(ret) \in {Running("min_sentence"), Running("min_sentences")}

\* One iteration of the `loop` of nonterm_min_costs, run by the first query
\* that needs the minimum costs.  The iteration that finds every nonterminal
\* done returns costs, which get_or_insert_with stores.  The costs of the
\* nonterminals not yet done are followed up to MaxCost.
nonterm_min_costs_pass ==
  /\ is_some(sg)
  /\ is_none(unwrap(sg).nonterm_min_costs)
  /\ ~Aborted
  /\ LET g == unwrap(grm)
         cur == IF is_none(min_run) THEN new_run(g) ELSE unwrap(min_run)
     IN /\ \A k \in 1..Len(cur.costs) : ~cur.done[k] => ~U32_lt(U32(MaxCost), cur.costs[k])
        /\ \E build \in Builds :
             LET r == min_for(build, g, unwrap(sg).term_costs, cur, 0, TRUE) IN
             IF r.all_done
             THEN /\ sg' = Some([unwrap(sg) EXCEPT !.nonterm_min_costs = Some(cur.costs)])
                  /\ min_run' = None
             ELSE /\ min_run' = Some(r.run)
                  /\ UNCHANGED sg
  /\ UNCHANGED <<ast, result, grm, yacc_kind, max_run, ret>>

\* sg.min_sentence_cost(nonterm_idx), once the minimum costs are there.
min_sentence_cost(nt_idx) ==
  /\ is_none(ret)
  /\ ~Aborted
  /\ is_some(sg)
  /\ is_some(unwrap(sg).nonterm_min_costs)
  /\ nt_idx < unwrap(grm).nonterms_len
  /\ ret' = Some([op |-> "min_sentence_cost", args |-> <<nt_idx>>,
                  val |-> At(unwrap(unwrap(sg).nonterm_min_costs), nt_idx)])
  /\ UNCHANGED <<ast, result, grm, yacc_kind, sg, min_run, max_run>>

\* nonterm_max_costs_pass run whether or not the costs are already there.
nonterm_max_costs_pass_again ==
  /\ is_some(sg)
  /\ ~Aborted
  /\ LET g == unwrap(grm)
         cur == IF is_none(max_run) THEN mark_recursive(g) ELSE unwrap(max_run)
     IN \E build \in Builds :
          LET r == max_for(build, g, unwrap(sg).term_costs, cur, 0, TRUE) IN
          IF r.all_done
          THEN /\ sg' = Some([unwrap(sg) EXCEPT !.nonterm_max_costs = Some(cur.costs)])
               /\ max_run' = None
          ELSE /\ max_run' = Some(r.run)
               /\ UNCHANGED sg
  /\ UNCHANGED <<ast, result, grm, yacc_kind, min_run, ret>>

\* One iteration of the `loop` of nonterm_max_costs, the first one after the
\* recursive nonterminals have been marked.
nonterm_max_costs_pass ==
  /\ is_some(sg)
  /\ is_none(unwrap(sg).nonterm_max_costs)
  /\ ~Aborted
  /\ LET g == unwrap(grm)
         cur == IF is_none(max_run) THEN mark_recursive(g) ELSE unwrap(max_run)
     IN /\ \A k \in 1..Len(cur.costs) : ~cur.done[k] => ~U32_lt(U32(MaxCost), cur.costs[k])
        /\ \E build \in Builds :
             LET r == max_for(build, g, unwrap(sg).term_costs, cur, 0, TRUE) IN
             IF r.all_done
             THEN /\ sg' = Some([unwrap(sg) EXCEPT !.nonterm_max_costs = Some(cur.costs)])
                  /\ max_run' = None
             ELSE /\ max_run' = Some(r.run)
                  /\ UNCHANGED sg
  /\ UNCHANGED <<ast, result, grm, yacc_kind, min_run, ret>>

\* sg.max_sentence_cost(nonterm_idx), once the maximum costs are there.
max_sentence_cost(nt_idx) ==
  /\ is_none(ret)
  /\ ~Aborted
  /\ is_some(sg)
  /\ is_some(unwrap(sg).nonterm_max_costs)
  /\ nt_idx < unwrap(grm).nonterms_len
  /\ LET v == At(unwrap(unwrap(sg).nonterm_max_costs), nt_idx) IN
     ret' = Some([op |-> "max_sentence_cost", args |-> <<nt_idx>>,
                  val |-> IF v = U32_MAX THEN None ELSE Some(v)])
  /\ UNCHANGED <<ast, result, grm, yacc_kind, sg, min_run, max_run>>

\* sg.min_sentence(nonterm_idx), once the minimum costs are there.
call_min_sentence(nt_idx) ==
  /\ is_none(ret)
  /\ ~Aborted
  /\ is_some(sg)
  /\ is_some(unwrap(sg).nonterm_min_costs)
  /\ nt_idx < unwrap(grm).nonterms_len
  /\ \E build \in Builds :
       LET r == min_sentence(build, unwrap(grm), unwrap(sg).term_costs,
                             unwrap(unwrap(sg).nonterm_min_costs), nt_idx, MaxSteps)
       IN ret' = Some(IF r.tag = "ok"
                      THEN [op |-> "min_sentence", args |-> <<nt_idx>>, val |-> r.val]
                      ELSE r)
  /\ UNCHANGED <<ast, result, grm, yacc_kind, sg, min_run, max_run>>

\* sg.min_sentences(nonterm_idx), once the minimum costs are there.
call_min_sentences(nt_idx) ==
  /\ is_none(ret)
  /\ ~Aborted
  /\ is_some(sg)
  /\ is_some(unwrap(sg).nonterm_min_costs)
  /\ nt_idx < unwrap(grm).nonterms_len
  /\ \E build \in Builds :
       LET r == min_sentences(build, unwrap(grm), unwrap(sg).term_costs,
                              unwrap(unwrap(sg).nonterm_min_costs), nt_idx, MaxSteps)
       IN ret' = Some(IF r.tag = "ok"
                      THEN [op |-> "min_sentences", args |-> <<nt_idx>>, val |-> r.val]
                      ELSE r)
  /\ UNCHANGED <<ast, result, grm, yacc_kind, sg, min_run, max_run>>

\* The caller takes the value the last query returned.
take_ret ==
  /\ is_some(ret)
  /\ ~Aborted
  /\ ~Stuck
  /\ ret' = None
  /\ UNCHANGED <<ast, result, grm, yacc_kind, sg, min_run, max_run>>

\* The AST after a sequence of add_prod calls, each <<key, symbols>>.
RECURSIVE add_prods(_, _)
add_prods(a, calls) ==
  IF calls = <<>>
  THEN a
  ELSE add_prods(add_prod_ast(a, Head(calls)[1], Head(calls)[2], None), Tail(calls))

\* The ASTs with start rule "A" and the given tokens that up to n add_prod
\* calls, the first for "A", build from keys and symbols, and on which
\* complete_and_validate returns Ok.
ValidASTs(tokens, implicit_tokens, keys, symbols, n) ==
  LET base == [GrammarAST_new EXCEPT !.start = Some("A"),
                                     !.tokens = tokens,
                                     !.implicit_tokens = implicit_tokens]
      built == UNION {{add_prods(base, calls) :
                         calls \in {cs \in [1..k -> keys \X Bodies(symbols)] :
                                      cs[1][1] = "A"}} :
                      k \in 1..n}
  IN {a \in built : validate(a) = Ok}

(***************************************************************************)
(* Spec: an AST is built, validated and compiled in either mode.  The rule *)
(* names include the three sentinels the compiler starts its fresh names   *)
(* from.                                                                   *)
(***************************************************************************)
RuleNames == {"A", "^", "~", "^~"}

StartNames == {"A"}

TokenNames == {"b", "c"}

Symbols == {Nonterm(n) : n \in StartNames} \cup {Term(t) : t \in TokenNames}

Next ==
  \/ \E s \in StartNames : set_start(s)
  \/ \E n \in TokenNames : tokens_insert(n)
  \/ \E set \in SUBSET TokenNames : set_implicit_tokens(set)
  \/ \E key \in RuleNames, symbols \in Bodies(Symbols) : add_prod(key, symbols, None)
  \/ complete_and_validate
  \/ \E kind \in YaccKind : YaccGrammar_new(kind)

Spec == Init /\ [][Next]_vars

(***************************************************************************)
(* SpecBuild: productions are added to a fresh AST, for two rules in any   *)
(* order.                                                                  *)
(***************************************************************************)
NextBuild ==
  \E key \in {"A", "B"},
     symbols \in {<<>>, <<Term("b")>>, <<Nonterm("B"), Term("b")>>},
     precedence \in {None, Some("b")} :
    call_add_prod(key, symbols, precedence)

SpecBuild == Init /\ [][NextBuild]_vars

(***************************************************************************)
(* SpecValidate: an AST is built and validated, with names that are used   *)
(* both for rules and for tokens, and with precedence overrides.           *)
(***************************************************************************)
ValidateNames == {"A", "b"}

ValidateTokens == {"b"}

ValidateSymbols == {Nonterm(n) : n \in ValidateNames} \cup {Term(t) : t \in ValidateTokens}

ValidatePrecs == {Precedence(0, "Left")}

NextValidate ==
  \/ \E s \in ValidateNames : set_start(s)
  \/ \E n \in ValidateTokens : tokens_insert(n)
  \/ \E n \in ValidateTokens, p \in ValidatePrecs : precs_insert(n, p)
  \/ \E key \in ValidateNames, symbols \in Bodies(ValidateSymbols),
        precedence \in {None} \cup {Some(t) : t \in ValidateTokens} :
       add_prod(key, symbols, precedence)
  \/ complete_and_validate

SpecValidate == Init /\ [][NextValidate]_vars

(***************************************************************************)
(* SpecPrec: productions are added to an AST whose start rule, tokens,     *)
(* precedences and implicit tokens are already set; the AST is then        *)
(* validated and compiled in either mode.  "b" and "c" may each have a     *)
(* precedence, and a production may carry the override %prec b.            *)
(***************************************************************************)
PrecTokens == {"b", "c"}

PrecSymbols == {Nonterm("A")} \cup {Term(t) : t \in PrecTokens}

\* The contents of ast.precs after any number of precs.insert calls.
PrecMaps ==
  {[t \in ranked |-> IF t = "b" THEN Precedence(0, "Left") ELSE Precedence(1, "Right")] :
     ranked \in SUBSET PrecTokens}

InitPrec ==
  /\ \E tokens \in Orders(PrecTokens), precs \in PrecMaps,
        implicit_tokens \in {None, Some(<<"c">>)} :
       ast = [GrammarAST_new EXCEPT !.start = Some("A"),
                                    !.tokens = tokens,
                                    !.precs = precs,
                                    !.implicit_tokens = implicit_tokens]
  /\ result = None
  /\ grm = None
  /\ yacc_kind = None
  /\ sg = None
  /\ min_run = None
  /\ max_run = None
  /\ ret = None

NextPrec ==
  \/ \E symbols \in Bodies(PrecSymbols), precedence \in {None, Some("b")} :
       add_prod("A", symbols, precedence)
  \/ complete_and_validate
  \/ \E kind \in YaccKind : YaccGrammar_new(kind)

SpecPrec == InitPrec /\ [][NextPrec]_vars

(***************************************************************************)
(* SpecPath: has_path is queried on the grammar compiled from a validated  *)
(* AST of up to MaxPathProds productions over the rules "A" and "B" and    *)
(* the token "b": in Original mode, or in Eco mode with "b" implicit.      *)
(***************************************************************************)
MaxPathProds == 3

PathSymbols == {Nonterm("A"), Nonterm("B"), Term("b")}

PathModes == {<<"Original", None>>, <<"Eco", Some(<<"b">>)>>}

InitPath ==
  /\ \E mode \in PathModes :
       \E a \in ValidASTs(<<"b">>, mode[2], {"A", "B"}, PathSymbols, MaxPathProds) :
         /\ ast = a
         /\ grm = Some(new_grammar(mode[1], a))
         /\ yacc_kind = Some(mode[1])
  /\ result = Some(Ok)
  /\ sg = None
  /\ min_run = None
  /\ max_run = None
  /\ ret = None

NextPath ==
  \/ \E from \in 0..4, to \in 0..4 : call_has_path(from, to)
  \/ take_ret

SpecPath == InitPath /\ [][NextPath]_vars

(***************************************************************************)
(* SpecMin: the minimum costs are computed, pass by pass, and queried on   *)
(* the grammar compiled in Original mode from a validated AST of up to     *)
(* MaxCostProds productions, those of "A" before those of "B", over the    *)
(* tokens "b" and "c"; "b" costs 1 and "c" costs 1 or 2.                   *)
(***************************************************************************)
MaxCostProds == 3

CostSymbols == {Nonterm("A"), Nonterm("B"), Term("b"), Term("c")}

\* The costs of "b", "c" and the end terminal.
TermCosts == {<<1, 1, 1>>, <<1, 2, 1>>}

\* The AST with start rule "A" and tokens "b" and "c" built by one add_prod
\* call per body: the first nA for "A", the next nB for "B", the others for
\* "C".
GroupedAST(bodies, nA, nB) ==
  add_prods([GrammarAST_new EXCEPT !.start = Some("A"), !.tokens = <<"b", "c">>],
            [i \in 1..Len(bodies) |->
               <<IF i <= nA THEN "A" ELSE IF i <= nA + nB THEN "B" ELSE "C", bodies[i]>>])

\* A SentenceGenerator has been made for the grammar compiled in Original
\* mode from a validated AST of up to n productions, for "A", "B" and (with
\* rules = 3) "C", whose bodies have up to len of the symbols.
InitGenerator(symbols, len, rules, n, term_costs) ==
  /\ \E k \in 1..n, nA \in 1..n, nB \in 0..n :
       /\ nA + nB <= k
       /\ rules = 2 => nA + nB = k
       /\ \E bodies \in [1..k -> UNION {[1..l -> symbols] : l \in 0..len}] :
            /\ validate(GroupedAST(bodies, nA, nB)) = Ok
            /\ ast = GroupedAST(bodies, nA, nB)
  /\ result = Some(Ok)
  /\ grm = Some(new_grammar("Original", ast))
  /\ yacc_kind = Some("Original")
  /\ \E term_cost \in term_costs : sg = Some(SentenceGenerator_new(unwrap(grm), term_cost))
  /\ min_run = None
  /\ max_run = None
  /\ ret = None

InitMin == InitGenerator(CostSymbols, MaxSyms, 2, MaxCostProds, TermCosts)

NextMin ==
  \/ nonterm_min_costs_pass
  \/ \E n \in 0..2 : min_sentence_cost(n)
  \/ take_ret

SpecMin == InitMin /\ [][NextMin]_vars

(***************************************************************************)
(* SpecSentence: min_sentence and min_sentences are called on the grammars *)
(* of SpecMin once the minimum costs have been computed.                   *)
(***************************************************************************)
InitSentence == InitGenerator(CostSymbols, MaxSyms, 2, MaxCostProds, TermCosts)

NextSentence ==
  \/ nonterm_min_costs_pass
  \/ \E n \in 0..2 : call_min_sentence(n)
  \/ \E n \in 0..2 : call_min_sentences(n)
  \/ take_ret

SpecSentence == InitSentence /\ [][NextSentence]_vars

(***************************************************************************)
(* SpecMax: the maximum costs are computed, pass by pass, and queried on   *)
(* the grammars of SpecMin and on those compiled from up to MaxChainProds  *)
(* productions of "A", "B" and "C" with at most MaxChainSyms symbols.      *)
(***************************************************************************)
MaxChainProds == 4

MaxChainSyms == 1

ChainSymbols == {Nonterm("A"), Nonterm("B"), Nonterm("C"), Term("b")}

InitMax ==
  \/ InitGenerator(CostSymbols, MaxSyms, 2, MaxCostProds, TermCosts)
  \/ InitGenerator(ChainSymbols, MaxChainSyms, 3, MaxChainProds, {<<1, 1, 1>>})

NextMax ==
  \/ nonterm_max_costs_pass
  \/ \E n \in 0..3 : max_sentence_cost(n)
  \/ take_ret

SpecMax == InitMax /\ [][NextMax]_vars

(***************************************************************************)
(* SpecGenerator: every query of a SentenceGenerator is called, in any     *)
(* order, on the grammars of SpecMin that have up to MaxAllProds           *)
(* productions.  A query computes the costs it needs before it returns, so *)
(* the loop of one fixed point never runs while the other is under way,    *)
(* and no query is answered in the middle of a loop.                       *)
(***************************************************************************)
MaxAllProds == 2

InitAll == InitGenerator(CostSymbols, MaxSyms, 2, MaxAllProds, TermCosts)

Idle == is_none(min_run) /\ is_none(max_run)

NextAll ==
  \/ is_none(max_run) /\ nonterm_min_costs_pass
  \/ is_none(min_run) /\ nonterm_max_costs_pass
  \/ \E n \in 0..2 : Idle /\ min_sentence_cost(n)
  \/ \E n \in 0..2 : Idle /\ max_sentence_cost(n)
  \/ \E n \in 0..2 : Idle /\ call_min_sentence(n)
  \/ \E n \in 0..2 : Idle /\ call_min_sentences(n)
  \/ take_ret

SpecGenerator == InitAll /\ [][NextAll]_vars

(***************************************************************************)
(* SpecOverflow: the costs are computed and the sentences asked for on     *)
(* grammars whose minimum costs come close to 2^32:                        *)
(*    A: 'b' | 'c' B01;  B01: B02 B02 'b';  ...  ;  Bn: 'b';               *)
(* with n from 30 to the 32 bits of a u32 (cost(Bi) = 2 * cost(Bi+1) +     *)
(* cost(b) is 2^31 - 1 or 2^32 - 1 for the last two), the rules of the     *)
(* chain being added last first, so that each is done when the one before  *)
(* it is visited.                                                          *)
(***************************************************************************)
\* The bits of a u32.
BITS == 32

ChainNames ==
  <<"B01", "B02", "B03", "B04", "B05", "B06", "B07", "B08",
     "B09", "B10", "B11", "B12", "B13", "B14", "B15", "B16",
     "B17", "B18", "B19", "B20", "B21", "B22", "B23", "B24",
     "B25", "B26", "B27", "B28", "B29", "B30", "B31", "B32">>

\* The add_prod calls for the chain from rule i down to rule 1, when it has
\* n rules.
RECURSIVE chain_calls(_, _)
chain_calls(n, i) ==
  IF i = 0 THEN <<>>
  ELSE <<<<ChainNames[i],
           IF i = n THEN <<Term("b")>>
           ELSE <<Nonterm(ChainNames[i + 1]), Nonterm(ChainNames[i + 1]), Term("b")>>>>>>
       \o chain_calls(n, i - 1)

ChainAST(n) ==
  add_prods([GrammarAST_new EXCEPT !.start = Some("A"), !.tokens = <<"b", "c">>],
            <<<<"A", <<Term("b")>>>>, <<"A", <<Term("c"), Nonterm(ChainNames[1])>>>>>>
            \o chain_calls(n, n))

InitOverflow ==
  /\ \E n \in (BITS - 2)..BITS : ast = ChainAST(n)
  /\ validate(ast) = Ok
  /\ result = Some(Ok)
  /\ grm = Some(new_grammar("Original", ast))
  /\ yacc_kind = Some("Original")
  /\ \E term_cost \in TermCosts : sg = Some(SentenceGenerator_new(unwrap(grm), term_cost))
  /\ min_run = None
  /\ max_run = None
  /\ ret = None

NextOverflow ==
  \/ nonterm_min_costs_pass
  \/ nonterm_max_costs_pass
  \/ \E n \in 0..2 : min_sentence_cost(n)
  \/ \E n \in 0..2 : max_sentence_cost(n)
  \/ \E n \in 0..2 : call_min_sentence(n)
  \/ \E n \in 0..2 : call_min_sentences(n)
  \/ take_ret

SpecOverflow == InitOverflow /\ [][NextOverflow]_vars

(***************************************************************************)
(* Properties of complete_and_validate.                                    *)
(***************************************************************************)
\* The productions listed in rules, as (rule position, list position) pairs.
Listed(a) ==
  {q \in (1..Len(a.rules)) \X (1..Len(a.prods)) : q[2] <= Len(a.rules[q[1]].value)}

ListedProd(a, q) == At(a.prods, a.rules[q[1]].value[q[2]])

RuleNameSet(a) == {a.rules[r].key : r \in 1..Len(a.rules)}

TokenSet(a) == Range(a.tokens)

\* The four well-formedness conditions.
StartIsRule(a) == is_some(a.start) /\ unwrap(a.start) \in RuleNameSet(a)

NontermRefsAreRules(a) ==
  \A q \in Listed(a) : \A i \in 1..Len(ListedProd(a, q).symbols) :
    LET sym == ListedProd(a, q).symbols[i] IN
    sym.tag = "Nonterm" => sym.v \in RuleNameSet(a)

TermRefsAreTokens(a) ==
  \A q \in Listed(a) : \A i \in 1..Len(ListedProd(a, q).symbols) :
    LET sym == ListedProd(a, q).symbols[i] IN
    sym.tag = "Term" => sym.v \in TokenSet(a)

OverridesHavePrecs(a) ==
  \A q \in Listed(a) :
    LET o == ListedProd(a, q).precedence IN
    is_some(o) => unwrap(o) \in TokenSet(a) /\ unwrap(o) \in DOMAIN a.precs

WellFormed(a) ==
  /\ StartIsRule(a)
  /\ NontermRefsAreRules(a)
  /\ TermRefsAreTokens(a)
  /\ OverridesHavePrecs(a)

\* C1: complete_and_validate returns Ok if and only if the start rule is set
\* and is a rule, every Nonterm of every listed production names a rule, every
\* Term names a token, and every precedence override names a token that has a
\* precedence; a Nonterm whose name is only a token (or a Term whose name is
\* only a rule) is not a valid reference.
C1_OkIffWellFormed ==
  is_some(result) => (unwrap(result) = Ok <=> WellFormed(ast))

\* C1 witness: validation returned Ok on an AST with a production that has an
\* override, a Nonterm and a Term, while some rule name is a token name too.
C1_Witness ==
  /\ result = Some(Ok)
  /\ RuleNameSet(ast) \cap TokenSet(ast) # {}
  /\ \E q \in Listed(ast) :
       LET astprod == ListedProd(ast, q) IN
       /\ is_some(astprod.precedence)
       /\ \E i, j \in 1..Len(astprod.symbols) :
            astprod.symbols[i].tag = "Nonterm" /\ astprod.symbols[j].tag = "Term"

\* The violation, if any, at each place the validator looks, in the order of
\* the claim: the start rule, then rule by rule (insertion order), production
\* by production (list order), the override and then the body left to right.
StartViolation(a) ==
  IF is_none(a.start)
  THEN Some(<<"NoStartRule", None>>)
  ELSE IF unwrap(a.start) \notin RuleNameSet(a)
       THEN Some(<<"InvalidStartRule", a.start>>)
       ELSE None

OverrideViolation(a, astprod) ==
  IF is_none(astprod.precedence)
  THEN None
  ELSE IF unwrap(astprod.precedence) \notin TokenSet(a)
       THEN Some(<<"UnknownToken", astprod.precedence>>)
       ELSE IF unwrap(astprod.precedence) \notin DOMAIN a.precs
            THEN Some(<<"NoPrecForToken", astprod.precedence>>)
            ELSE None

SymbolViolation(a, sym) ==
  IF sym.tag = "Nonterm" /\ sym.v \notin RuleNameSet(a)
  THEN Some(<<"UnknownRuleRef", Some(sym.v)>>)
  ELSE IF sym.tag = "Term" /\ sym.v \notin TokenSet(a)
       THEN Some(<<"UnknownToken", Some(sym.v)>>)
       ELSE None

ProdViolations(a, astprod) ==
  <<OverrideViolation(a, astprod)>>
    \o [i \in 1..Len(astprod.symbols) |-> SymbolViolation(a, astprod.symbols[i])]

RECURSIVE Concat(_)
Concat(seqs) == IF seqs = <<>> THEN <<>> ELSE Head(seqs) \o Concat(Tail(seqs))

AllViolations(a) ==
  <<StartViolation(a)>>
    \o Concat([r \in 1..Len(a.rules) |->
                 Concat([j \in 1..Len(a.rules[r].value) |->
                           ProdViolations(a, ListedProd(a, <<r, j>>))])])

RECURSIVE FirstSome(_)
FirstSome(opts) ==
  IF opts = <<>> THEN None
  ELSE IF is_some(Head(opts)) THEN Head(opts) ELSE FirstSome(Tail(opts))

\* The kind of an error and the name it carries.
ErrKey(e) == <<e.kind, IF is_some(e.sym) THEN Some(unwrap(e.sym).v) ELSE None>>

\* C2: a failing complete_and_validate returns the error of the first
\* violation in the fixed order start, then per rule and per production the
\* override before the body symbols left to right.
C2_FirstViolationWins ==
  (is_some(result) /\ unwrap(result) # Ok) =>
    Some(ErrKey(unwrap(result))) = FirstSome(AllViolations(ast))

\* C2 witness: validation failed on an AST with two violations of different
\* kinds, within one production and in two productions.
C2_Witness ==
  /\ is_some(result) /\ unwrap(result) # Ok
  /\ LET v == AllViolations(ast) IN
     \E i, j, k \in 2..Len(v) :
       /\ i < j /\ j < k
       /\ is_some(v[i]) /\ is_some(v[j]) /\ is_some(v[k])
       /\ unwrap(v[i])[1] # unwrap(v[j])[1]
       /\ unwrap(v[j])[1] # unwrap(v[k])[1]

(***************************************************************************)
(* Properties of the compiled grammar.                                     *)
(***************************************************************************)
\* YaccGrammar::new returned a grammar.
Compiled == is_some(grm) /\ unwrap(grm) # Panic

\* Implicit rewriting is active: Eco mode and %implicit_tokens present.
Rewriting == yacc_kind = Some("Eco") /\ is_some(ast.implicit_tokens)

\* The number of synthesised nonterminals in front of the AST's rules.
Offset == IF Rewriting THEN 3 ELSE 1

RECURSIVE Rep(_, _)
Rep(str, k) == IF k = 1 THEN str ELSE str \o Rep(str, k - 1)

\* The names made of one or more copies of a sentinel that are no rule name.
Fresh(sentinel) == {Rep(sentinel, k) : k \in 1..(Len(ast.rules) + 1)} \ RuleNameSet(ast)

\* C3: the nonterminals are the synthesised start NT at index 0, then (only
\* with implicit rewriting) the implicit NT at 1 and the implicit start NT at
\* 2, then the AST's rule names in insertion order; start_rule_idx() is 0.
C3_NontermLayout ==
  Compiled =>
    LET g == unwrap(grm) IN
    /\ start_rule_idx(g) = 0
    /\ nonterm_name(g, 0) \in Fresh("^")
    /\ Rewriting =>
         /\ nonterm_name(g, 1) \in Fresh("~")
         /\ nonterm_name(g, 2) \in Fresh("^~")
    /\ g.nonterms_len = Offset + Len(ast.rules)
    /\ Len(g.nonterm_names) = g.nonterms_len
    /\ \A r \in 1..Len(ast.rules) : nonterm_name(g, Offset + r - 1) = ast.rules[r].key

\* C3 witness: a grammar compiled with implicit rewriting from an AST with two
\* rules, one of them named like a sentinel.
C3_Witness ==
  /\ Compiled
  /\ Rewriting
  /\ Len(ast.rules) = 2
  /\ RuleNameSet(ast) \cap {"^", "~", "^~"} # {}

\* The name of the rule whose production list holds the AST production i.
OwnerKey(a, i) ==
  a.rules[CHOOSE r \in 1..Len(a.rules) : i \in Range(a.rules[r].value)].key

\* A compiled symbol with its index replaced by the name the grammar gives it.
NameOf(g, sym) ==
  IF sym.tag = "Nonterm"
  THEN Nonterm(nonterm_name(g, sym.v))
  ELSE Term(unwrap(term_name(g, sym.v)))

\* A compiled body without the occurrences of the implicit nonterminal, by name.
Decompiled(g, body) ==
  LET kept == IF is_some(implicit_nonterm(g))
              THEN SelectSeq(body, LAMBDA sym : sym # Nonterm(unwrap(implicit_nonterm(g))))
              ELSE body
  IN [i \in 1..Len(kept) |-> NameOf(g, kept[i])]

\* C4: the AST production i is the compiled production i (same owner, same
\* body once the inserted symbols are deleted), every synthesised production
\* has an index >= ast.prods.len(), start_prod is ast.prods.len(), and
\* prods_len is ast.prods.len() + 1, or + |implicit_tokens| + 3 with rewriting.
C4_ProdIndices ==
  Compiled =>
    LET g == unwrap(grm)
        n == Len(ast.prods)
    IN /\ start_prod(g) = n
       /\ g.prods_len = n + (IF Rewriting THEN Len(unwrap(ast.implicit_tokens)) + 3 ELSE 1)
       /\ Len(g.prods) = g.prods_len
       /\ \A i \in 0..(n - 1) :
            /\ nonterm_name(g, prod_to_nonterm(g, i)) = OwnerKey(ast, i)
            /\ prod_to_nonterm(g, i) >= Offset
            /\ Decompiled(g, prod(g, i)) = At(ast.prods, i).symbols
       /\ \A q \in 0..(g.prods_len - 1) : prod_to_nonterm(g, q) < Offset => q >= n

\* C4 witness: a grammar compiled with rewriting from two productions of two
\* rules with different bodies and two implicit tokens.
C4_Witness ==
  /\ Compiled
  /\ Rewriting
  /\ Len(unwrap(ast.implicit_tokens)) = 2
  /\ Len(ast.prods) = 2
  /\ Len(ast.rules) = 2
  /\ ast.prods[1].symbols # ast.prods[2].symbols

\* The places where the production index q occurs in the lists of rules_prods.
Occurrences(g, q) ==
  {w \in (1..Len(g.rules_prods)) \X (1..g.prods_len) :
     w[2] <= Len(g.rules_prods[w[1]]) /\ g.rules_prods[w[1]][w[2]] = q}

\* C5: every production index below prods_len occurs in the production list
\* of exactly one nonterminal, once, and that nonterminal is prod_to_nonterm
\* of it; every index in a production list is below prods_len.
C5_ProdsRulesInverse ==
  Compiled =>
    LET g == unwrap(grm) IN
    /\ Len(g.prods_rules) = g.prods_len
    /\ \A q \in 0..(g.prods_len - 1) :
         /\ Cardinality(Occurrences(g, q)) = 1
         /\ \A w \in Occurrences(g, q) : prod_to_nonterm(g, q) = w[1] - 1
    /\ \A nt \in 1..Len(g.rules_prods) : \A j \in 1..Len(g.rules_prods[nt]) :
         g.rules_prods[nt][j] \in 0..(g.prods_len - 1)

\* C5 witness: a grammar with rewriting, two implicit tokens and a user rule
\* with two productions.
C5_Witness ==
  /\ Compiled
  /\ Rewriting
  /\ Len(unwrap(ast.implicit_tokens)) = 2
  /\ \E r \in 1..Len(ast.rules) : Len(ast.rules[r].value) = 2

\* C6: nonterm_idx(nonterm_name(i)) is Some(i) for every nonterminal, and
\* term_idx(term_name(t)) is Some(t) for every named terminal.
C6_NameIndexRoundTrip ==
  Compiled =>
    LET g == unwrap(grm) IN
    /\ \A i \in 0..(g.nonterms_len - 1) : nonterm_idx(g, nonterm_name(g, i)) = Some(i)
    /\ \A t \in 0..(g.terms_len - 1) :
         is_some(term_name(g, t)) => term_idx(g, unwrap(term_name(g, t))) = Some(t)

\* C6 witness: a grammar with rewriting whose AST has rules named ~ and ^ or
\* ^~ (so two fresh names were grown) and two tokens.
C6_Witness ==
  /\ Compiled
  /\ Rewriting
  /\ Cardinality(RuleNameSet(ast) \cap {"^", "~", "^~"}) >= 1
  /\ "A" \in RuleNameSet(ast)
  /\ Len(ast.tokens) = 2

\* C7: the start nonterminal has the one production start_prod, whose body is
\* the single symbol Nonterm(S) for the user's start rule S without rewriting
\* and Nonterm(^~) with it; no other production belongs to the start NT.
C7_StartProd ==
  Compiled =>
    LET g == unwrap(grm)
        body == prod(g, start_prod(g))
    IN /\ nonterm_to_prods(g, start_rule_idx(g)) = <<start_prod(g)>>
       /\ Len(body) = 1
       /\ body[1].tag = "Nonterm"
       /\ IF Rewriting
          THEN body[1].v = 2 /\ nonterm_name(g, 2) \in Fresh("^~")
          ELSE Some(nonterm_name(g, body[1].v)) = ast.start
       /\ \A q \in 0..(g.prods_len - 1) :
            q # start_prod(g) => prod_to_nonterm(g, q) # start_rule_idx(g)

\* C7 witness: a grammar with rewriting whose user start rule is not the
\* first rule of the AST.
C7_Witness ==
  /\ Compiled
  /\ Rewriting
  /\ Len(ast.rules) = 2
  /\ Some(ast.rules[2].key) = ast.start

\* The symbols the claim expects for one AST symbol: its relabelling, followed
\* by the implicit NT when it is a Term and rewriting is active.
Relabelled(g, astsym) ==
  IF astsym.tag = "Nonterm"
  THEN Nonterm(unwrap(nonterm_idx(g, astsym.v)))
  ELSE Term(unwrap(term_idx(g, astsym.v)))

ExpectedBody(g, symbols) ==
  Concat([i \in 1..Len(symbols) |->
            IF symbols[i].tag = "Term" /\ Rewriting
            THEN <<Relabelled(g, symbols[i]), Nonterm(1)>>
            ELSE <<Relabelled(g, symbols[i])>>])

\* C8: the compiled body of a user production is the AST body relabelled,
\* with Nonterm(~) inserted right after every Term and nowhere else under
\* rewriting and nothing inserted without it; without the inserted symbols it
\* is the relabelled AST body in the original order.
C8_BodyRewrite ==
  Compiled =>
    LET g == unwrap(grm) IN
    \A i \in 0..(Len(ast.prods) - 1) :
      LET symbols == At(ast.prods, i).symbols IN
      /\ prod(g, i) = ExpectedBody(g, symbols)
      /\ SelectSeq(prod(g, i), LAMBDA sym : ~(Rewriting /\ sym = Nonterm(1)))
           = [k \in 1..Len(symbols) |-> Relabelled(g, symbols[k])]

\* C8 witness: a grammar with rewriting and a user production that holds a
\* Term and a Nonterm, and one that holds two Terms.
C8_Witness ==
  /\ Compiled
  /\ Rewriting
  /\ \E i \in 1..Len(ast.prods) :
       /\ Len(ast.prods[i].symbols) = 2
       /\ ast.prods[i].symbols[1].tag = "Nonterm"
       /\ ast.prods[i].symbols[2].tag = "Term"
  /\ \E i \in 1..Len(ast.prods) :
       /\ Len(ast.prods[i].symbols) = 2
       /\ ast.prods[i].symbols[1].tag = "Term"
       /\ ast.prods[i].symbols[2].tag = "Term"

\* C9: under rewriting the implicit NT has |implicit_tokens| + 1 productions:
\* [Term(t), Nonterm(~)] once for each implicit terminal t, then the empty
\* production, last; the implicit start NT has the one production
\* [Nonterm(~), Nonterm(S)].
C9_ImplicitRules ==
  (Compiled /\ Rewriting) =>
    LET g == unwrap(grm)
        toks == unwrap(ast.implicit_tokens)
        ips == nonterm_to_prods(g, 1)
        sps == nonterm_to_prods(g, 2)
    IN /\ implicit_nonterm(g) = Some(1)
       /\ Len(ips) = Len(toks) + 1
       /\ prod(g, ips[Len(ips)]) = <<>>
       /\ \A t \in Range(toks) :
            Cardinality({j \in 1..Len(toks) :
                           prod(g, ips[j]) = <<Term(unwrap(term_idx(g, t))), Nonterm(1)>>}) = 1
       /\ Len(sps) = 1
       /\ prod(g, sps[1]) = <<Nonterm(1), Nonterm(unwrap(nonterm_idx(g, unwrap(ast.start))))>>

\* C9 witness: a grammar compiled with rewriting and two implicit tokens.
C9_Witness ==
  /\ Compiled
  /\ Rewriting
  /\ Len(unwrap(ast.implicit_tokens)) = 2
  /\ Len(ast.tokens) = 2

\* C10: implicit_nonterm() is Some (and then index 1) exactly in Eco mode
\* with implicit_tokens present; in Original mode, and in Eco mode without
\* implicit_tokens, the grammar is the one compiled in either mode from the
\* same AST with implicit_tokens absent.
C10_ImplicitOnlyInEco ==
  Compiled =>
    LET g == unwrap(grm)
        bare == [ast EXCEPT !.implicit_tokens = None]
    IN /\ is_some(implicit_nonterm(g)) <=> Rewriting
       /\ is_some(implicit_nonterm(g)) => implicit_nonterm(g) = Some(1)
       /\ ~Rewriting =>
            /\ g = new_grammar("Original", bare)
            /\ g = new_grammar("Eco", bare)

\* C10 witness: a grammar compiled in Original mode from an AST whose
\* implicit_tokens is present and not empty.
C10_Witness ==
  /\ Compiled
  /\ yacc_kind = Some("Original")
  /\ is_some(ast.implicit_tokens)
  /\ unwrap(ast.implicit_tokens) # <<>>

(***************************************************************************)
(* Properties of the precedence of productions.                            *)
(***************************************************************************)

\* The positions of the terminals in a body (of the AST or compiled).
TermPositions(symbols) == {k \in 1..Len(symbols) : symbols[k].tag = "Term"}

\* The right-most terminal of a body, if it has one.
RightmostTerm(symbols) ==
  IF TermPositions(symbols) = {}
  THEN None
  ELSE Some(symbols[CHOOSE k \in TermPositions(symbols) :
                      \A l \in TermPositions(symbols) : l <= k].v)

\* The precedence ast.precs gives to the terminal named t, if any.
DeclaredPrec(a, t) == IF t \in DOMAIN a.precs THEN Some(a.precs[t]) ELSE None

\* The user productions, by index into ast.prods.
UserProds == 0..(Len(ast.prods) - 1)

\* C11: the precedence of a user production is that of the terminal its
\* %prec override names; without an override it is that of the right-most
\* terminal of its AST body, None when that terminal has no precedence or
\* the body has no terminal.  The ~ symbols inserted in Eco mode play no
\* part: the AST body alone decides, in both modes.
C11_EffectivePrecedence ==
  Compiled =>
    \A i \in UserProds :
      LET astprod == At(ast.prods, i)
          last == RightmostTerm(astprod.symbols)
      IN prod_precedence(unwrap(grm), i) =
           IF is_some(astprod.precedence)
           THEN Some(ast.precs[unwrap(astprod.precedence)])
           ELSE IF is_some(last) THEN DeclaredPrec(ast, unwrap(last)) ELSE None

\* A grammar compiled with rewriting in which a production without override
\* ends in a nonterminal, has an unranked right-most terminal and a ranked
\* terminal to its left, and another production carries an override.
C11_Witness ==
  /\ Compiled
  /\ Rewriting
  /\ \E i \in UserProds :
       /\ At(ast.prods, i).symbols = <<Term("c"), Nonterm("A")>>
       /\ is_none(At(ast.prods, i).precedence)
       /\ prod_precedence(unwrap(grm), i) = Some(Precedence(1, "Right"))
  /\ \E i \in UserProds :
       /\ At(ast.prods, i).symbols = <<Term("c")>>
       /\ At(ast.prods, i).precedence = Some("b")
       /\ prod_precedence(unwrap(grm), i) = Some(Precedence(0, "Left"))

\* The precedence the invariant of the specification attributes to a body
\* with a terminal: that of the right-most terminal that has one.
RECURSIVE RightmostRanked(_, _, _)
RightmostRanked(g, body, k) ==
  IF k = 0
  THEN None
  ELSE IF body[k].tag = "Term" /\ is_some(term_precedence(g, body[k].v))
       THEN term_precedence(g, body[k].v)
       ELSE RightmostRanked(g, body, k - 1)

\* C12 as stated: every production whose body has a terminal has the
\* precedence of the right-most terminal that has one (or its override), and
\* every other production has None.
C12_Original ==
  Compiled =>
    LET g == unwrap(grm) IN
    \A i \in 0..(g.prods_len - 1) :
      prod_precedence(g, i) =
        IF TermPositions(prod(g, i)) = {}
        THEN None
        ELSE IF i \in UserProds /\ is_some(At(ast.prods, i).precedence)
             THEN Some(ast.precs[unwrap(At(ast.prods, i).precedence)])
             ELSE RightmostRanked(g, prod(g, i), Len(prod(g, i)))

\* C12 (amended): a user production with an override has the precedence of
\* the terminal named; any other user production has the precedence
\* term_precedence gives to the right-most terminal of its compiled body
\* (None when that terminal has none, or the body has no terminal); the
\* productions the compiler adds have None.
C12_ProdPrecedence ==
  Compiled =>
    LET g == unwrap(grm) IN
    \A i \in 0..(g.prods_len - 1) :
      LET last == RightmostTerm(prod(g, i)) IN
      prod_precedence(g, i) =
        IF i \notin UserProds
        THEN None
        ELSE IF is_some(At(ast.prods, i).precedence)
             THEN term_precedence(g, unwrap(term_idx(g, unwrap(At(ast.prods, i).precedence))))
             ELSE IF is_some(last) THEN term_precedence(g, unwrap(last)) ELSE None

\* A compiled grammar with a production whose right-most terminal has no
\* precedence while a terminal to its left has one.
C12_Witness ==
  /\ Compiled
  /\ "b" \in DOMAIN ast.precs
  /\ "c" \notin DOMAIN ast.precs
  /\ \E i \in UserProds :
       /\ At(ast.prods, i).symbols = <<Term("b"), Term("c")>>
       /\ is_none(At(ast.prods, i).precedence)
       /\ prod_precedence(unwrap(grm), i) = None

(***************************************************************************)
(* Properties of has_path.                                                 *)
(***************************************************************************)

\* The nonterminals X mentions: those in the body of a production of X.
Mentioned(g, x) ==
  {y \in 0..(g.nonterms_len - 1) :
     \E j \in 1..Len(nonterm_to_prods(g, x)) :
       Nonterm(y) \in Range(prod(g, nonterm_to_prods(g, x)[j]))}

\* The least set that holds S and what its members mention.
RECURSIVE MentionedClosure(_, _)
MentionedClosure(g, S) ==
  LET more == S \cup UNION {Mentioned(g, x) : x \in S} IN
  IF more = S THEN S ELSE MentionedClosure(g, more)

\* The nonterminals reached from x in one or more steps.
Reached(g, x) == MentionedClosure(g, Mentioned(g, x))

\* C13: has_path(from, to) returned true exactly when to is in the
\* transitive, not reflexive, closure of "mentions" from from; so
\* has_path(x, x) is true exactly when x reaches itself in one or more steps.
C13_HasPathIsClosure ==
  (is_some(ret) /\ unwrap(ret).op = "has_path") =>
    (unwrap(ret).val <=> unwrap(ret).args[2] \in Reached(unwrap(grm), unwrap(ret).args[1]))

\* has_path(B, B) returned true for a B that does not mention itself: it
\* reaches itself through another rule.
C13_Witness ==
  /\ is_some(ret)
  /\ unwrap(ret).op = "has_path"
  /\ yacc_kind = Some("Original")
  /\ LET g == unwrap(grm)
         b == unwrap(nonterm_idx(g, "B"))
     IN /\ is_some(nonterm_idx(g, "B"))
        /\ unwrap(ret).args = <<b, b>>
        /\ unwrap(ret).val
        /\ b \notin Mentioned(g, b)

(***************************************************************************)
(* Properties of the minimum costs.                                        *)
(***************************************************************************)

\* The cost of a body when the nonterminals cost what D says; None when D
\* gives no cost to one of them.
BodyCost(term_costs, D, body) ==
  IF \E k \in 1..Len(body) : body[k].tag = "Nonterm" /\ is_none(At(D, body[k].v))
  THEN None
  ELSE LET c(sym) == IF sym.tag = "Term" THEN At(term_costs, sym.v) ELSE unwrap(At(D, sym.v))
           sum[k \in 0..Len(body)] == IF k = 0 THEN 0 ELSE sum[k - 1] + c(body[k])
       IN Some(sum[Len(body)])

\* The number a u32 below 2^31 stands for.
Nat32(a) == a[1] * HALF + a[2]

\* The least element of a non-empty set of numbers.
Min(S) == CHOOSE x \in S : \A y \in S : x <= y

\* The least cost of the terminal strings that have a derivation tree of
\* height at most h from each nonterminal (None: there is no such string).
RECURSIVE DerivableMin(_, _, _)
DerivableMin(g, term_costs, h) ==
  IF h = 0
  THEN [k \in 1..g.nonterms_len |-> None]
  ELSE LET D == DerivableMin(g, term_costs, h - 1) IN
       [k \in 1..g.nonterms_len |->
          LET cs == {BodyCost(term_costs, D, prod(g, nonterm_to_prods(g, k - 1)[j])) :
                       j \in 1..Len(nonterm_to_prods(g, k - 1))} \ {None}
          IN IF cs = {} THEN None ELSE Some(Min({unwrap(c) : c \in cs}))]

\* The least cost of the terminal strings derivable from each nonterminal: a
\* cheapest string has a derivation tree in which no nonterminal is below
\* itself, so of height at most nonterms_len.
TrueMin(g, term_costs) == DerivableMin(g, term_costs, g.nonterms_len)

\* C14: when the minimum costs have been computed, min_sentence_cost(n) is
\* the least total cost of the terminal strings derivable from n.
C14_MinCostIsLeast ==
  (is_some(ret) /\ unwrap(ret).op = "min_sentence_cost") =>
    Some(Nat32(unwrap(ret).val)) =
      At(TrueMin(unwrap(grm), unwrap(sg).term_costs), unwrap(ret).args[1])

\* min_sentence_cost returned 2 for a recursive "A" whose cheapest string is
\* not that of its first production, and which has a costlier alternative.
C14_Witness ==
  /\ is_some(ret)
  /\ unwrap(ret).op = "min_sentence_cost"
  /\ unwrap(ret).val = U32(2)
  /\ nonterm_idx(unwrap(grm), "A") = Some(unwrap(ret).args[1])
  /\ unwrap(sg).term_costs = <<1, 2, 1>>
  /\ At(ast.prods, 0).symbols = <<Nonterm("A"), Term("b")>>
  /\ At(ast.prods, 1).symbols = <<Nonterm("B")>>

(***************************************************************************)
(* Properties of the maximum costs.                                        *)
(***************************************************************************)

\* The nonterminals in a body.
NontermsIn(body) == {body[k].v : k \in {l \in 1..Len(body) : body[l].tag = "Nonterm"}}

\* The bodies of the productions of nonterminal x.
BodiesOf(g, x) == {prod(g, nonterm_to_prods(g, x)[j]) : j \in 1..Len(nonterm_to_prods(g, x))}

\* The nonterminals that derive a terminal string: the least set that holds
\* every nonterminal with a body all of whose nonterminals are in the set.
RECURSIVE ProductiveFrom(_, _)
ProductiveFrom(g, S) ==
  LET more == S \cup {x \in 0..(g.nonterms_len - 1) :
                        \E body \in BodiesOf(g, x) : NontermsIn(body) \subseteq S}
  IN IF more = S THEN S ELSE ProductiveFrom(g, more)

Productive(g) == ProductiveFrom(g, {})

\* The bodies of x from which a terminal string is derived.
UsefulBodiesOf(g, x) == {body \in BodiesOf(g, x) : NontermsIn(body) \subseteq Productive(g)}

\* Does the symbol derive a non-empty terminal string?
RECURSIVE NonEmpty(_, _)
NonEmpty(g, S) ==
  LET more == S \cup {x \in Productive(g) :
                        \E body \in UsefulBodiesOf(g, x) :
                          \E k \in 1..Len(body) : body[k].tag = "Term" \/ body[k].v \in S}
  IN IF more = S THEN S ELSE NonEmpty(g, more)

\* x => ... y ... in one step of a derivation of a terminal string.
UsefulMentioned(g, x) == UNION {NontermsIn(body) : body \in UsefulBodiesOf(g, x)}

RECURSIVE UsefulClosure(_, _)
UsefulClosure(g, S) ==
  LET more == S \cup UNION {UsefulMentioned(g, x) : x \in S} IN
  IF more = S THEN S ELSE UsefulClosure(g, more)

\* x => alpha y beta in one such step, with alpha beta deriving a non-empty
\* string.
GrowingStep(g, x, y) ==
  \E body \in UsefulBodiesOf(g, x) : \E k \in 1..Len(body) :
    /\ body[k] = Nonterm(y)
    /\ \E l \in (1..Len(body)) \ {k} :
         body[l].tag = "Term" \/ body[l].v \in NonEmpty(g, {})

\* The terminal strings derivable from n have no greatest cost: a derivation
\* from n reaches a cycle that adds terminals each time round.
Unbounded(g, n) ==
  \E x \in UsefulClosure(g, {n}), y \in 0..(g.nonterms_len - 1) :
    GrowingStep(g, x, y) /\ x \in UsefulClosure(g, {y})

Max(S) == CHOOSE x \in S : \A y \in S : y <= x

\* The greatest cost of the terminal strings that have a derivation tree of
\* height at most h from each nonterminal (None: there is no such string).
RECURSIVE DerivableMax(_, _, _)
DerivableMax(g, term_costs, h) ==
  IF h = 0
  THEN [k \in 1..g.nonterms_len |-> None]
  ELSE LET D == DerivableMax(g, term_costs, h - 1) IN
       [k \in 1..g.nonterms_len |->
          LET cs == {BodyCost(term_costs, D, body) : body \in BodiesOf(g, k - 1)} \ {None}
          IN IF cs = {} THEN None ELSE Some(Max({unwrap(c) : c \in cs}))]

\* The greatest cost of the terminal strings derivable from a nonterminal
\* for which it is bounded: a cycle adds nothing, so a costliest string has a
\* derivation tree of height at most nonterms_len.
TrueMax(g, term_costs) == DerivableMax(g, term_costs, g.nonterms_len)

\* C15: for every nonterminal n that derives terminal strings, of bounded
\* cost, max_sentence_cost(n) returns Some(v), v being the greatest cost of
\* the terminal strings derivable from n.
C15_MaxCostIsGreatest ==
  (is_some(ret) /\ unwrap(ret).op = "max_sentence_cost") =>
    LET g == unwrap(grm)
        n == unwrap(ret).args[1]
    IN (n \in Productive(g) /\ ~Unbounded(g, n)) =>
         /\ is_some(unwrap(ret).val)
         /\ Some(Nat32(unwrap(unwrap(ret).val))) = At(TrueMax(g, unwrap(sg).term_costs), n)

\* C16: max_sentence_cost(n) is None exactly when has_path(n, n) holds or n
\* has a path to a nonterminal whose maximum cost is None.
C16_InfiniteIffRecursive ==
  (is_some(sg) /\ is_some(unwrap(sg).nonterm_max_costs)) =>
    LET g == unwrap(grm)
        costs == unwrap(unwrap(sg).nonterm_max_costs)
    IN \A n \in 0..(g.nonterms_len - 1) :
         At(costs, n) = U32_MAX <=>
           \/ has_path(g, n, n)
           \/ \E m \in 0..(g.nonterms_len - 1) :
                has_path(g, n, m) /\ At(costs, m) = U32_MAX

(***************************************************************************)
(* Properties of the minimal sentences.                                    *)
(***************************************************************************)

\* The concatenations of a string of S with a string of T.
Cat(S, T) == {a \o b : a \in S, b \in T}

\* The terminal strings that have a derivation tree of height at most h from
\* each nonterminal.
RECURSIVE Sentences(_, _)
Sentences(g, h) ==
  IF h = 0
  THEN [k \in 1..g.nonterms_len |-> {}]
  ELSE LET L == Sentences(g, h - 1)
           of(sym) == IF sym.tag = "Term" THEN {<<sym.v>>} ELSE At(L, sym.v)
           ofBody(body) ==
             LET cat[k \in 0..Len(body)] ==
                   IF k = 0 THEN {<<>>} ELSE Cat(cat[k - 1], of(body[k]))
             IN cat[Len(body)]
       IN [k \in 1..g.nonterms_len |-> UNION {ofBody(body) : body \in BodiesOf(g, k - 1)}]

\* The total cost of a terminal string.
SentenceCost(term_costs, s) ==
  LET sum[k \in 0..Len(s)] == IF k = 0 THEN 0 ELSE sum[k - 1] + At(term_costs, s[k])
  IN sum[Len(s)]

\* The terminal strings derivable from n of the least cost: with terminals
\* that cost something, each has a derivation tree in which no nonterminal
\* is below itself.
MinimalSentences(g, term_costs, n) ==
  LET S == At(Sentences(g, g.nonterms_len), n) IN
  {s \in S : \A t \in S : SentenceCost(term_costs, s) <= SentenceCost(term_costs, t)}

\* C17: min_sentence(n) returns; what it returns is derivable from n, costs
\* min_sentence_cost(n) and is one of min_sentences(n).
C17_MinSentenceIsMinimal ==
  /\ is_some(ret) => unwrap(ret) # Running("min_sentence")
  /\ (is_some(ret) /\ unwrap(ret).op = "min_sentence") =>
       LET g == unwrap(grm)
           n == unwrap(ret).args[1]
           s == unwrap(ret).val
           min_costs == unwrap(unwrap(sg).nonterm_min_costs)
           all == min_sentences("release", g, unwrap(sg).term_costs, min_costs, n, MaxSteps)
       IN /\ s \in At(Sentences(g, g.nonterms_len + 1), n)
          /\ SentenceCost(unwrap(sg).term_costs, s) = Nat32(At(min_costs, n))
          /\ all.tag = "ok" /\ s \in Range(all.val)

\* C18: the sentences min_sentences(n) returns are exactly the derivable
\* terminal strings of n of the least cost.
C18_MinSentencesAreTheMinimal ==
  (is_some(ret) /\ unwrap(ret).op = "min_sentences") =>
    Range(unwrap(ret).val) =
      MinimalSentences(unwrap(grm), unwrap(sg).term_costs, unwrap(ret).args[1])

C18_Witness ==
  /\ is_some(ret) /\ unwrap(ret).op = "min_sentences"
  /\ unwrap(ret).args[1] = 1
  /\ Cardinality(Range(unwrap(ret).val)) = 2
  /\ \E s \in Range(unwrap(ret).val) : Len(s) = 2
  /\ Cardinality(At(Sentences(unwrap(grm), 3), 1)) > 2

\* C19: min_sentences(n) lists every minimal sentence of n exactly once: the
\* list is as long as n has minimal sentences.
C19_EachListedOnce ==
  (is_some(ret) /\ unwrap(ret).op = "min_sentences") =>
    /\ Len(unwrap(ret).val) =
         Cardinality(MinimalSentences(unwrap(grm), unwrap(sg).term_costs,
                                      unwrap(ret).args[1]))
    /\ \A i, j \in 1..Len(unwrap(ret).val) :
         unwrap(ret).val[i] = unwrap(ret).val[j] => i = j

(***************************************************************************)
(* Properties of the cost sums.                                            *)
(***************************************************************************)

\* The sum of the costs of the symbols of a body, as the pair <<hi, lo>> with
\* hi not cut at 16 bits.
ExactSum(term_costs, costs, body) ==
  LET x(sym) == IF sym.tag = "Term" THEN U32(At(term_costs, sym.v)) ELSE At(costs, sym.v)
      sum[k \in 0..Len(body)] ==
        IF k = 0 THEN <<0, 0>>
        ELSE LET lo == sum[k - 1][2] + x(body[k])[2] IN
             <<sum[k - 1][1] + x(body[k])[1] + (lo \div HALF), lo % HALF>>
  IN sum[Len(body)]

\* The sum does not fit a u32.
Overflows(term_costs, costs, body) == ExactSum(term_costs, costs, body)[1] >= HALF

\* C20: no sum of costs wraps: a call of min_sentence or min_sentences that
\* did not abort has summed no production of its nonterminal beyond
\* u32::MAX, the cached minimum costs are sums that fit, and a cached
\* maximum cost is u32::MAX for the nonterminals marked infinite only.
C20_NoSilentWrap ==
  /\ (is_some(ret) /\ unwrap(ret) # Panic
        /\ unwrap(ret).op \in {"min_sentence", "min_sentences"}) =>
       LET g == unwrap(grm)
           n == IF "args" \in DOMAIN unwrap(ret) THEN unwrap(ret).args[1] ELSE 0
       IN "args" \in DOMAIN unwrap(ret) =>
            \A body \in BodiesOf(g, n) :
              ~Overflows(unwrap(sg).term_costs, unwrap(unwrap(sg).nonterm_min_costs), body)
  /\ (is_some(sg) /\ is_some(unwrap(sg).nonterm_max_costs)) =>
       LET g == unwrap(grm) IN
       \A n \in 0..(g.nonterms_len - 1) :
         At(unwrap(unwrap(sg).nonterm_max_costs), n) = U32_MAX =>
           \E m \in 0..(g.nonterms_len - 1) :
             (m = n \/ has_path(g, n, m)) /\ has_path(g, m, m)

(***************************************************************************)
(* Further properties of the compiled grammar.                             *)
(***************************************************************************)

\* C21: in every compiled grammar every nonterminal has at least one
\* production, also the implicit nonterminal of an empty %implicit_tokens.
C21_EveryNontermHasProd ==
  Compiled =>
    \A i \in 0..(unwrap(grm).nonterms_len - 1) : Len(nonterm_to_prods(unwrap(grm), i)) >= 1

C21_Witness ==
  /\ Compiled
  /\ Rewriting
  /\ ast.implicit_tokens = Some(<<>>)
  /\ Len(ast.rules) > 1
  /\ Len(nonterm_to_prods(unwrap(grm), 1)) = 1

\* C22: the end terminal is the last terminal, its index is the number of
\* tokens, and it has no name and no precedence; every other terminal has a
\* name, and terms_map() maps exactly these names, each to its terminal.
C22_EofIsLast ==
  Compiled =>
    LET g == unwrap(grm)
        named == 0..(g.terms_len - 2)
    IN /\ eof_term_idx(g) = g.terms_len - 1
       /\ eof_term_idx(g) = Len(ast.tokens)
       /\ term_name(g, eof_term_idx(g)) = None
       /\ term_precedence(g, eof_term_idx(g)) = None
       /\ \A t \in named : is_some(term_name(g, t))
       /\ DOMAIN terms_map(g) = {unwrap(term_name(g, t)) : t \in named}
       /\ \A t \in named : terms_map(g)[unwrap(term_name(g, t))] = t

C22_Witness ==
  /\ Compiled
  /\ Len(ast.tokens) = 2
  /\ DOMAIN terms_map(unwrap(grm)) = {"b", "c"}
  /\ terms_map(unwrap(grm))["c"] = 0

(***************************************************************************)
(* Properties of the AST builder.                                          *)
(***************************************************************************)

\* The production list of rule r, empty when there is no such rule.
ListOf(a, r) == IF rules_contains_key(a.rules, r) THEN rules_get(a.rules, r) ELSE <<>>

\* Every production index is in the list of one rule, once; the lists are
\* strictly increasing and no rule is there twice.
IndicesPartitioned(a) ==
  /\ \A q \in 0..(Len(a.prods) - 1) :
       Cardinality({pos \in UNION {{<<i, j>> : j \in 1..Len(a.rules[i].value)} :
                                      i \in 1..Len(a.rules)} :
                      a.rules[pos[1]].value[pos[2]] = q}) = 1
  /\ \A i \in 1..Len(a.rules) :
       /\ \A j \in 1..Len(a.rules[i].value) : a.rules[i].value[j] < Len(a.prods)
       /\ \A j, l \in 1..Len(a.rules[i].value) :
            j < l => a.rules[i].value[j] < a.rules[i].value[l]
       /\ \A l \in 1..Len(a.rules) : a.rules[i].key = a.rules[l].key => i = l

\* What the call of add_prod kept in ret' did: call number k (from 0) put
\* its production at prods[k] and k at the end of the list of its rule, which
\* is new and last in the iteration order if the name was not yet used, and
\* nothing else changed.
AddProdStep ==
  LET key == unwrap(ret').args[1]
      k == Len(ast.prods)
  IN /\ ast'.prods = Append(ast.prods, Production(unwrap(ret').args[2], unwrap(ret').args[3]))
     /\ rules_keys(ast'.rules) =
          IF rules_contains_key(ast.rules, key)
          THEN rules_keys(ast.rules)
          ELSE Append(rules_keys(ast.rules), key)
     /\ \A r \in Range(rules_keys(ast'.rules)) :
          ListOf(ast', r) = IF r = key THEN Append(ListOf(ast, r), k) ELSE ListOf(ast, r)

\* C23: after any sequence of add_prod calls on a fresh AST the k-th call's
\* production is at prods[k], every production index is in the list of
\* exactly one rule, once, that of the rule named in its call, the lists are
\* strictly increasing, and the rules are in the order of their first use.
C23_AddProdLayout == [] IndicesPartitioned(ast) /\ [][AddProdStep]_vars

C23_Witness ==
  /\ is_some(ret) /\ unwrap(ret).op = "add_prod"
  /\ rules_keys(ast.rules) = <<"B", "A">>
  /\ ListOf(ast, "B") = <<0, 2>>
  /\ ListOf(ast, "A") = <<1>>

MinStart == IF is_none(min_run) THEN new_run(unwrap(grm)) ELSE unwrap(min_run)

AtVisit(cur, r, n) ==
  [costs |-> [k \in 1..Len(cur.costs) |-> IF k - 1 < n THEN r.costs[k] ELSE cur.costs[k]],
   done |-> [k \in 1..Len(cur.done) |-> IF k - 1 < n THEN r.done[k] ELSE cur.done[k]]]

\* The costs of the productions of n that are complete (every nonterminal
\* of the body done), or of those that are incomplete, in run v.
CostsAt(g, term_costs, v, n, complete) ==
  {unwrap(BodyCost(term_costs, [k \in 1..Len(v.costs) |-> Some(Nat32(v.costs[k]))], body)) :
     body \in {b \in BodiesOf(g, n) :
                 complete <=> \A m \in NontermsIn(b) : At(v.done, m)}}

\* C25: a pass of nonterm_min_costs finalises a nonterminal n that is not
\* yet done, at the lowest complete cost Lc, whenever n has a complete
\* production and Lc <= Li, the lowest incomplete cost (or n has no
\* incomplete production); equality finalises.
C25_EqualityFinalises ==
  [][(is_some(min_run') /\ ~unwrap(min_run').panicked) =>
       LET g == unwrap(grm)
           r == unwrap(min_run')
       IN \A n \in 0..(g.nonterms_len - 1) :
            LET v == AtVisit(MinStart, r, n)
                cmplt == CostsAt(g, unwrap(sg).term_costs, v, n, TRUE)
                noncmplt == CostsAt(g, unwrap(sg).term_costs, v, n, FALSE)
            IN (~At(MinStart.done, n) /\ cmplt # {}
                  /\ (noncmplt = {} \/ Min(cmplt) <= Min(noncmplt))) =>
                 (At(r.done, n) /\ Nat32(At(r.costs, n)) = Min(cmplt))]_vars

\* C26: on a grammar in which every nonterminal derives a terminal string
\* (the terminals all cost something) nonterm_min_costs returns: its loop
\* never reaches a pass that finds a nonterminal not done and changes neither
\* a cost nor a done flag, which is the pass it would repeat for ever.
MinPassFrom(build) ==
  min_for(build, unwrap(grm), unwrap(sg).term_costs,
          IF is_none(min_run) THEN new_run(unwrap(grm)) ELSE unwrap(min_run), 0, TRUE)

C26_MinTerminates ==
  (/\ is_some(sg)
   /\ is_none(unwrap(sg).nonterm_min_costs)
   /\ Productive(unwrap(grm)) = 0..(unwrap(grm).nonterms_len - 1)
   /\ \A k \in 1..Len(unwrap(sg).term_costs) : unwrap(sg).term_costs[k] > 0)
    => \A build \in Builds :
         \/ MinPassFrom(build).all_done
         \/ is_none(min_run)
         \/ MinPassFrom(build).run # unwrap(min_run)

\* C27: in both fixed points a pass never lowers a cost, never clears a done
\* flag and never writes the cost of a nonterminal that is done; no debug
\* assertion fails; the costs returned are those of a run with every
\* nonterminal done.
MaxStart == IF is_none(max_run) THEN mark_recursive(unwrap(grm)) ELSE unwrap(max_run)

Frozen(cur, r) ==
  \A k \in 1..Len(cur.costs) :
    /\ ~U32_lt(r.costs[k], cur.costs[k])
    /\ cur.done[k] => (r.done[k] /\ r.costs[k] = cur.costs[k])

Returns(cur, costs, costs1) ==
  (is_none(costs) /\ is_some(costs1)) =>
    (unwrap(costs1) = cur.costs /\ \A k \in 1..Len(cur.done) : cur.done[k])

C27_CostsOnlyGrow ==
  /\ [](is_some(min_run) => ~unwrap(min_run).panicked)
  /\ [](is_some(max_run) => ~unwrap(max_run).panicked)
  /\ [][/\ is_some(min_run') => Frozen(MinStart, unwrap(min_run'))
        /\ is_some(max_run') => Frozen(MaxStart, unwrap(max_run'))
        /\ Returns(MinStart, unwrap(sg).nonterm_min_costs, unwrap(sg').nonterm_min_costs)
        /\ Returns(MaxStart, unwrap(sg).nonterm_max_costs, unwrap(sg').nonterm_max_costs)]_vars

\* The minimum costs have been returned and the loop of nonterm_max_costs has
\* finalised one nonterminal at a cost and raised the cost of another.
C27_Witness ==
  /\ is_some(sg)
  /\ is_some(unwrap(sg).nonterm_min_costs)
  /\ \E k \in 1..Len(unwrap(unwrap(sg).nonterm_min_costs)) :
       unwrap(unwrap(sg).nonterm_min_costs)[k] # U32(0)
  /\ is_some(max_run)
  /\ \E k, j \in 1..Len(unwrap(max_run).costs) :
       /\ unwrap(max_run).done[k] /\ unwrap(max_run).costs[k] \notin {U32(0), U32_MAX}
       /\ ~unwrap(max_run).done[j] /\ unwrap(max_run).costs[j] # U32(0)

\* C28: nonterm_max_costs returns: once the recursive nonterminals are
\* marked, a pass of its loop that finds a nonterminal not done leaves more
\* nonterminals done than it found, so that after at most nonterms_len
\* passes one finds them all done.
MaxPassFrom(build) ==
  max_for(build, unwrap(grm), unwrap(sg).term_costs, MaxStart, 0, TRUE)

DoneCount(run) == Cardinality({k \in 1..Len(run.done) : run.done[k]})

C28_MaxTerminates ==
  (is_some(sg) /\ is_none(unwrap(sg).nonterm_max_costs)) =>
    \A build \in Builds :
      \/ MaxPassFrom(build).all_done
      \/ DoneCount(MaxPassFrom(build).run) > DoneCount(MaxStart)

\* The loop is under way on a grammar with a recursive nonterminal: it has
\* finalised a nonterminal at a finite cost and has another still to do.
C28_Witness ==
  /\ is_some(max_run)
  /\ \E i, j, k \in 1..Len(unwrap(max_run).costs) :
       /\ unwrap(max_run).done[i] /\ unwrap(max_run).costs[i] = U32_MAX
       /\ unwrap(max_run).done[j] /\ unwrap(max_run).costs[j] # U32_MAX
       /\ ~unwrap(max_run).done[k]

(***************************************************************************)
(* Properties of compiling a validated AST.                                *)
(***************************************************************************)

\* C29: YaccGrammar::new returns a grammar for every AST that
\* complete_and_validate accepted, in Original and in Eco mode: no name it
\* looks up in nonterm_map or term_map is missing.
C29_CompileNeverFails == (result = Some(Ok) /\ is_some(grm)) => unwrap(grm) # Panic

(***************************************************************************)
(* Properties of the SentenceGenerator's stored costs.                     *)
(***************************************************************************)

\* The costs nonterm_min_costs returns when its loop starts from run.
RECURSIVE MinFix(_)
MinFix(run) ==
  LET r == min_for("release", unwrap(grm), unwrap(sg).term_costs, run, 0, TRUE) IN
  IF r.all_done THEN run.costs ELSE MinFix(r.run)

\* The costs nonterm_max_costs returns when its loop starts from run.
RECURSIVE MaxFix(_)
MaxFix(run) ==
  LET r == max_for("release", unwrap(grm), unwrap(sg).term_costs, run, 0, TRUE) IN
  IF r.all_done THEN run.costs ELSE MaxFix(r.run)

\* What the query op answers for nonterminal n on a generator that has
\* answered no query before.
FirstAnswer(op, n) ==
  IF op = "min_sentence_cost"
  THEN At(MinFix(new_run(unwrap(grm))), n)
  ELSE IF op = "max_sentence_cost"
  THEN LET v == At(MaxFix(mark_recursive(unwrap(grm))), n) IN
       IF v = U32_MAX THEN None ELSE Some(v)
  ELSE IF op = "min_sentence"
  THEN min_sentence("release", unwrap(grm), unwrap(sg).term_costs,
                    MinFix(new_run(unwrap(grm))), n, MaxSteps).val
  ELSE min_sentences("release", unwrap(grm), unwrap(sg).term_costs,
                     MinFix(new_run(unwrap(grm))), n, MaxSteps).val

\* C30: whatever queries a SentenceGenerator has answered and in whatever
\* order, each of its two cost vectors is computed once, by the first query
\* that needs it, and stays as it is; every query answers what it would
\* have answered as the first query.
C30_CostsComputedOnce ==
  /\ []((is_some(ret) /\ "args" \in DOMAIN unwrap(ret)) =>
          unwrap(ret).val = FirstAnswer(unwrap(ret).op, unwrap(ret).args[1]))
  /\ [][/\ is_some(unwrap(sg).nonterm_min_costs) =>
             (unwrap(sg').nonterm_min_costs = unwrap(sg).nonterm_min_costs /\ is_none(min_run'))
        /\ is_some(unwrap(sg).nonterm_max_costs) =>
             (unwrap(sg').nonterm_max_costs = unwrap(sg).nonterm_max_costs /\ is_none(max_run'))]_vars

\* min_sentences has answered after both cost vectors were computed, on a
\* grammar whose nonterminals do not all cost the same.
C30_Witness ==
  /\ is_some(sg)
  /\ is_some(unwrap(sg).nonterm_max_costs)
  /\ is_some(unwrap(sg).nonterm_min_costs)
  /\ unwrap(unwrap(sg).nonterm_min_costs) # unwrap(unwrap(sg).nonterm_max_costs)
  /\ is_some(ret)
  /\ "args" \in DOMAIN unwrap(ret)
  /\ unwrap(ret).op = "min_sentences"
  /\ unwrap(ret).val # <<>>
  /\ unwrap(ret).val[1] # <<>>

====
